---- MODULE Spec2Model ----
(***************************************************************************)
(* A model of the cli-todo task list: the TodoList collection and its     *)
(* operations (Add, Complete, Uncomplete, Delete, EditTask,               *)
(* ClearCompleted, SearchTasks, List), and the interactive command loop   *)
(* with its single-step undo record lastActionState.                      *)
(*                                                                         *)
(* Text (Go strings) is a sequence of one-character strings, so that      *)
(* strings.ToLower, strings.Contains and strconv.Atoi are computed and    *)
(* not assumed.  A *time.Time is <<>> for nil and <<t>> for a pointer to  *)
(* the instant t; instants are integers (days for due dates, clock ticks  *)
(* for time.Now()).                                                        *)
(***************************************************************************)
EXTENDS Integers, Sequences, FiniteSets, TLC

(***************************************************************************)
(* Bounds of the model.                                                    *)
(***************************************************************************)
\* The interactive session performs at most MaxAdds successful adds.
MaxAdds == 3

(***************************************************************************)
(* Text helpers: strings.ToLower, strings.Contains, strconv.Atoi.         *)
(***************************************************************************)
Upper == <<"A","B","C","D","E","F","G","H","I","J","K","L","M",
           "N","O","P","Q","R","S","T","U","V","W","X","Y","Z">>
Lower == <<"a","b","c","d","e","f","g","h","i","j","k","l","m",
           "n","o","p","q","r","s","t","u","v","w","x","y","z">>
Digits == <<"0","1","2","3","4","5","6","7","8","9">>

ToLowerChar(c) ==
    IF \E i \in 1..Len(Upper) : Upper[i] = c
    THEN Lower[CHOOSE i \in 1..Len(Upper) : Upper[i] = c]
    ELSE c

ToLower(s) == [i \in 1..Len(s) |-> ToLowerChar(s[i])]

\* strings.Contains(s, sub): sub occurs in s as a contiguous run.
Contains(s, sub) ==
    \E k \in 0..(Len(s) - Len(sub)) :
        \A i \in 1..Len(sub) : s[k + i] = sub[i]

IsDigit(c) == \E i \in 1..Len(Digits) : Digits[i] = c
DigitVal(c) == (CHOOSE i \in 1..Len(Digits) : Digits[i] = c) - 1

RECURSIVE AtoiVal(_)
AtoiVal(s) ==
    IF s = <<>> THEN 0
    ELSE 10 * AtoiVal(SubSeq(s, 1, Len(s) - 1)) + DigitVal(s[Len(s)])

\* strconv.Atoi on an unsigned decimal token: error on the empty text and
\* on any non-digit.
Atoi(s) ==
    IF s # <<>> /\ \A i \in 1..Len(s) : IsDigit(s[i])
    THEN [n |-> AtoiVal(s), err |-> FALSE]
    ELSE [n |-> 0, err |-> TRUE]

(***************************************************************************)
(* Priority levels.                                                        *)
(***************************************************************************)
PriorityHigh == <<"h","i","g","h">>
PriorityMedium == <<"m","e","d","i","u","m">>
PriorityLow == <<"l","o","w">>

\* priorityMap: the keys are the lowercase names, each mapped to its level.
priorityMap(k) ==
    CASE k = <<"h","i","g","h">> -> <<PriorityHigh>>
      [] k = <<"m","e","d","i","u","m">> -> <<PriorityMedium>>
      [] k = <<"l","o","w">> -> <<PriorityLow>>
      [] OTHER -> <<>>

isValidPriority(p) == p \in {PriorityHigh, PriorityMedium, PriorityLow}

\* Mutant of toCanonicalPriority: the map is looked up without lowering
\* the text.
toCanonicalPriority_CaseSensitive(p) ==
    LET hit == priorityMap(p)
    IN  IF hit # <<>> THEN hit[1] ELSE <<>>

toCanonicalPriority(p) ==
    LET hit == priorityMap(ToLower(p))
    IN  IF hit # <<>> THEN hit[1] ELSE <<>>

(***************************************************************************)
(* Due dates: parseDueDate is time.Parse("2006-01-02", s).  A date text   *)
(* is kept as its three numeric fields <<year, month, day>>; any other    *)
(* length is a text that does not have the YYYY-MM-DD layout.             *)
(***************************************************************************)
IsLeap(y) == (y % 4 = 0 /\ y % 100 # 0) \/ y % 400 = 0

DaysIn(y, m) ==
    IF m = 2 THEN (IF IsLeap(y) THEN 29 ELSE 28)
    ELSE IF m \in {4, 6, 9, 11} THEN 30 ELSE 31

RECURSIVE DaysBeforeMonth(_, _)
DaysBeforeMonth(y, m) ==
    IF m = 1 THEN 0 ELSE DaysBeforeMonth(y, m - 1) + DaysIn(y, m - 1)

\* Days from 0001-01-01 to the given civil date.
DayNumber(y, m, d) ==
    LET py == y - 1
    IN  365 * py + (py \div 4) - (py \div 100) + (py \div 400)
        + DaysBeforeMonth(y, m) + (d - 1)

parseDueDate(s) ==
    IF /\ Len(s) = 3
       /\ s[1] \in 0..9999
       /\ s[2] \in 1..12
       /\ s[3] \in 1..DaysIn(s[1], s[2])
    THEN [t |-> DayNumber(s[1], s[2], s[3]), err |-> FALSE]
    ELSE [t |-> 0, err |-> TRUE]

(***************************************************************************)
(* Todo and TodoList.                                                      *)
(***************************************************************************)
NewTodoList == [Todos |-> <<>>, NextID |-> 1]

\* The zero value Todo{} returned beside an error.
ZeroTodo ==
    [ID |-> 0, Task |-> <<>>, Completed |-> FALSE, CreatedAt |-> 0,
     Priority |-> <<>>, DueDate |-> <<>>, Tags |-> <<>>]

\* Index of the first todo with the given ID, 0 when there is none (the
\* linear scan of Complete, Uncomplete, Delete and EditTask).
IndexOfID(todos, id) ==
    IF \E i \in 1..Len(todos) : todos[i].ID = id
    THEN CHOOSE i \in 1..Len(todos) :
            /\ todos[i].ID = id
            /\ \A j \in 1..(i - 1) : todos[j].ID # id
    ELSE 0

\* append(s[:i], s[i+1:]...) for the 1-based index i.
RemoveAt(s, i) == SubSeq(s, 1, i - 1) \o SubSeq(s, i + 1, Len(s))

(***************************************************************************)
(* Output.  PrintUserMessage and the Log* functions are modelled by the   *)
(* list of lines a call emits: <<channel, kind, n>> with channel "user"   *)
(* (standard output) or "log", a kind naming the format string, and the   *)
(* number the format prints (0 when it prints none).                      *)
(***************************************************************************)
User(kind, n) == <<"user", kind, n>>
Log(kind, n) == <<"log", kind, n>>

(***************************************************************************)
(* Operations of TodoList.  Each yields the list after the call (tl), the *)
(* error flag (err), the Todo returned (todo, for Delete) and the lines   *)
(* emitted (msgs).                                                        *)
(***************************************************************************)
\* Mutant of Add: the counter is not advanced.
Add_NoIncrement(tl, task, priority, dueDate, tags, now) ==
    LET canonicalPriority == toCanonicalPriority(priority)
        valid == isValidPriority(canonicalPriority)
        todo == [ID |-> tl.NextID, Task |-> task, Completed |-> FALSE,
                 CreatedAt |-> now,
                 Priority |-> IF valid THEN canonicalPriority ELSE PriorityMedium,
                 DueDate |-> dueDate, Tags |-> tags]
    IN  [tl |-> [Todos |-> Append(tl.Todos, todo), NextID |-> tl.NextID],
         err |-> FALSE, todo |-> todo,
         msgs |-> <<User("Added todo", todo.ID)>>]

Add(tl, task, priority, dueDate, tags, now) ==
    LET canonicalPriority == toCanonicalPriority(priority)
        valid == isValidPriority(canonicalPriority)
        todo == [ID |-> tl.NextID,
                 Task |-> task,
                 Completed |-> FALSE,
                 CreatedAt |-> now,
                 Priority |-> IF valid THEN canonicalPriority ELSE PriorityMedium,
                 DueDate |-> dueDate,
                 Tags |-> tags]
    IN  [tl |-> [Todos |-> Append(tl.Todos, todo), NextID |-> tl.NextID + 1],
         err |-> FALSE,
         todo |-> todo,
         msgs |-> (IF valid THEN <<>> ELSE <<Log("WARNING: Invalid priority level", 0)>>)
                  \o <<User("Added todo", todo.ID)>>]

\* Mutant of Complete: the identifier is used as a position in the slice.
Complete_ByIndex(tl, id) ==
    IF id \in 1..Len(tl.Todos)
    THEN [tl |-> [tl EXCEPT !.Todos[id].Completed = TRUE],
          err |-> FALSE, todo |-> ZeroTodo,
          msgs |-> <<User("Completed todo", tl.Todos[id].ID)>>]
    ELSE [tl |-> tl, err |-> TRUE, todo |-> ZeroTodo, msgs |-> <<>>]

\* Mutant of Complete: the flag is flipped instead of set.
Complete_Toggle(tl, id) ==
    LET i == IndexOfID(tl.Todos, id)
    IN  IF i # 0
        THEN [tl |-> [tl EXCEPT !.Todos[i].Completed = ~tl.Todos[i].Completed],
              err |-> FALSE, todo |-> ZeroTodo,
              msgs |-> <<User("Completed todo", tl.Todos[i].ID)>>]
        ELSE [tl |-> tl, err |-> TRUE, todo |-> ZeroTodo, msgs |-> <<>>]

Complete(tl, id) ==
    LET i == IndexOfID(tl.Todos, id)
    IN  IF i # 0
        THEN [tl |-> [tl EXCEPT !.Todos[i].Completed = TRUE],
              err |-> FALSE, todo |-> ZeroTodo,
              msgs |-> <<User("Completed todo", tl.Todos[i].ID)>>]
        ELSE [tl |-> tl, err |-> TRUE, todo |-> ZeroTodo, msgs |-> <<>>]

\* Mutant of Uncomplete: every todo up to the match is marked incomplete.
Uncomplete_UpToMatch(tl, id) ==
    LET i == IndexOfID(tl.Todos, id)
    IN  IF i # 0
        THEN [tl |-> [tl EXCEPT !.Todos = [k \in 1..Len(tl.Todos) |->
                                  IF k <= i
                                  THEN [tl.Todos[k] EXCEPT !.Completed = FALSE]
                                  ELSE tl.Todos[k]]],
              err |-> FALSE, todo |-> ZeroTodo,
              msgs |-> <<User("Uncompleted todo", tl.Todos[i].ID)>>]
        ELSE [tl |-> tl, err |-> TRUE, todo |-> ZeroTodo, msgs |-> <<>>]

Uncomplete(tl, id) ==
    LET i == IndexOfID(tl.Todos, id)
    IN  IF i # 0
        THEN [tl |-> [tl EXCEPT !.Todos[i].Completed = FALSE],
              err |-> FALSE, todo |-> ZeroTodo,
              msgs |-> <<User("Uncompleted todo", tl.Todos[i].ID)>>]
        ELSE [tl |-> tl, err |-> TRUE, todo |-> ZeroTodo, msgs |-> <<>>]

\* Mutant of Delete: the Todo returned is read from the slice after the
\* removal, so it is the record that slid into the freed slot.
Delete_ReturnsShifted(tl, id) ==
    LET i == IndexOfID(tl.Todos, id)
        rest == RemoveAt(tl.Todos, i)
    IN  IF i # 0
        THEN [tl |-> [tl EXCEPT !.Todos = rest],
              err |-> FALSE,
              todo |-> IF i <= Len(rest) THEN rest[i] ELSE ZeroTodo,
              msgs |-> <<User("Deleted todo", tl.Todos[i].ID)>>]
        ELSE [tl |-> tl, err |-> TRUE, todo |-> ZeroTodo, msgs |-> <<>>]

\* Mutant of Delete: the last record is moved into the freed slot (removal
\* that does not keep the order).
Delete_SwapRemove(tl, id) ==
    LET i == IndexOfID(tl.Todos, id)
        n == Len(tl.Todos)
    IN  IF i # 0
        THEN [tl |-> [tl EXCEPT !.Todos =
                        SubSeq([tl.Todos EXCEPT ![i] = tl.Todos[n]], 1, n - 1)],
              err |-> FALSE, todo |-> tl.Todos[i],
              msgs |-> <<User("Deleted todo", tl.Todos[i].ID)>>]
        ELSE [tl |-> tl, err |-> TRUE, todo |-> ZeroTodo, msgs |-> <<>>]

Delete(tl, id) ==
    LET i == IndexOfID(tl.Todos, id)
    IN  IF i # 0
        THEN [tl |-> [tl EXCEPT !.Todos = RemoveAt(tl.Todos, i)],
              err |-> FALSE, todo |-> tl.Todos[i],
              msgs |-> <<User("Deleted todo", tl.Todos[i].ID)>>]
        ELSE [tl |-> tl, err |-> TRUE, todo |-> ZeroTodo, msgs |-> <<>>]

\* Mutant of EditTask: an unknown identifier is not reported.
EditTask_Silent(tl, id, newTask) ==
    LET i == IndexOfID(tl.Todos, id)
    IN  IF i # 0
        THEN [tl |-> [tl EXCEPT !.Todos[i].Task = newTask],
              err |-> FALSE, todo |-> ZeroTodo,
              msgs |-> <<User("Edited todo", id)>>]
        ELSE [tl |-> tl, err |-> FALSE, todo |-> ZeroTodo, msgs |-> <<>>]

\* Mutant of EditTask: an empty new text is ignored.
EditTask_KeepsOnEmpty(tl, id, newTask) ==
    LET i == IndexOfID(tl.Todos, id)
    IN  IF i # 0
        THEN [tl |-> IF newTask = <<>> THEN tl
                     ELSE [tl EXCEPT !.Todos[i].Task = newTask],
              err |-> FALSE, todo |-> ZeroTodo,
              msgs |-> <<User("Edited todo", id)>>]
        ELSE [tl |-> tl, err |-> TRUE, todo |-> ZeroTodo, msgs |-> <<>>]

EditTask(tl, id, newTask) ==
    LET i == IndexOfID(tl.Todos, id)
    IN  IF i # 0
        THEN [tl |-> [tl EXCEPT !.Todos[i].Task = newTask],
              err |-> FALSE, todo |-> ZeroTodo,
              msgs |-> <<User("Edited todo", id)>>]
        ELSE [tl |-> tl, err |-> TRUE, todo |-> ZeroTodo, msgs |-> <<>>]

\* The todos that are not completed, in order (the loop of ClearCompleted).
RECURSIVE ActiveTodos(_)
ActiveTodos(todos) ==
    IF todos = <<>> THEN <<>>
    ELSE (IF ~Head(todos).Completed THEN <<Head(todos)>> ELSE <<>>)
         \o ActiveTodos(Tail(todos))

\* Mutant of ClearCompleted: the completion test is inverted.
ClearCompleted_Inverted(tl) ==
    LET kept == SelectSeq(tl.Todos, LAMBDA t : t.Completed)
    IN  IF Len(tl.Todos) > Len(kept)
        THEN [tl |-> [tl EXCEPT !.Todos = kept],
              err |-> FALSE, todo |-> ZeroTodo,
              msgs |-> <<User("Cleared completed todos", Len(tl.Todos) - Len(kept))>>]
        ELSE [tl |-> tl, err |-> FALSE, todo |-> ZeroTodo,
              msgs |-> <<User("No completed todos to clear.", 0)>>]

\* Mutant of ClearCompleted: the loop stops dropping after the first
\* completed todo.
ClearCompleted_FirstOnly(tl) ==
    LET done == {i \in 1..Len(tl.Todos) : tl.Todos[i].Completed}
        first == CHOOSE i \in done : \A j \in done : i <= j
    IN  IF done # {}
        THEN [tl |-> [tl EXCEPT !.Todos = RemoveAt(tl.Todos, first)],
              err |-> FALSE, todo |-> ZeroTodo,
              msgs |-> <<User("Cleared completed todos", 1)>>]
        ELSE [tl |-> tl, err |-> FALSE, todo |-> ZeroTodo,
              msgs |-> <<User("No completed todos to clear.", 0)>>]

ClearCompleted(tl) ==
    LET activeTodos == ActiveTodos(tl.Todos)
    IN  IF Len(tl.Todos) > Len(activeTodos)
        THEN [tl |-> [tl EXCEPT !.Todos = activeTodos],
              err |-> FALSE, todo |-> ZeroTodo,
              msgs |-> <<User("Cleared completed todos",
                              Len(tl.Todos) - Len(activeTodos))>>]
        ELSE [tl |-> tl, err |-> FALSE, todo |-> ZeroTodo,
              msgs |-> <<User("No completed todos to clear.", 0)>>]

\* Mutant of SearchMatch: the tags are not looked at.
SearchMatch_TaskOnly(todo, lowerQuery) ==
    Contains(ToLower(todo.Task), lowerQuery)

\* A todo matches a search when its task or one of its tags contains the
\* lowercased query, both compared in lowercase.
SearchMatch(todo, lowerQuery) ==
    \/ Contains(ToLower(todo.Task), lowerQuery)
    \/ \E k \in 1..Len(todo.Tags) : Contains(ToLower(todo.Tags[k]), lowerQuery)

\* Mutant of SearchScan: the loops go on after a match, and the todo is
\* appended for its description and for each tag that holds the query.
RECURSIVE SearchScan_NoBreak(_, _)
SearchScan_NoBreak(todos, lowerQuery) ==
    IF todos = <<>> THEN <<>>
    ELSE LET todo == Head(todos)
             n == (IF Contains(ToLower(todo.Task), lowerQuery) THEN 1 ELSE 0)
                  + Cardinality({k \in 1..Len(todo.Tags) :
                                   Contains(ToLower(todo.Tags[k]), lowerQuery)})
         IN  [i \in 1..n |-> todo] \o SearchScan_NoBreak(Tail(todos), lowerQuery)

RECURSIVE SearchScan(_, _)
SearchScan(todos, lowerQuery) ==
    IF todos = <<>> THEN <<>>
    ELSE (IF SearchMatch(Head(todos), lowerQuery) THEN <<Head(todos)>> ELSE <<>>)
         \o SearchScan(Tail(todos), lowerQuery)

SearchTasks(tl, query) ==
    [Todos |-> SearchScan(tl.Todos, ToLower(query)), NextID |-> NewTodoList.NextID]

(***************************************************************************)
(* List: the filter and the sort.                                          *)
(***************************************************************************)
\* Go compares strings byte by byte; Ascii lists the characters the model
\* uses in increasing byte order.
Ascii == <<" ">> \o Digits \o Upper \o Lower
CharCode(c) == CHOOSE i \in 1..Len(Ascii) : Ascii[i] = c

\* a < b for Go strings.
StrLess(a, b) ==
    \E k \in 1..(Len(b)) :
        /\ k <= Len(a) + 1
        /\ \A i \in 1..(k - 1) : a[i] = b[i]
        /\ \/ k = Len(a) + 1
           \/ CharCode(a[k]) < CharCode(b[k])

\* ListOptions{}: the zero value.
ZeroOptions ==
    [FilterStatus |-> "", FilterPriority |-> <<>>, FilterTags |-> <<>>,
     SortBy |-> "", SortOrder |-> ""]

\* Mutant of ListMatch: the tags are compared as they are spelled.
ListMatch_TagsCaseSensitive(todo, options) ==
    LET canonicalFilterPriority == toCanonicalPriority(options.FilterPriority)
    IN  /\ ~(options.FilterStatus = "completed" /\ ~todo.Completed)
        /\ ~(options.FilterStatus = "incomplete" /\ todo.Completed)
        /\ ~(canonicalFilterPriority # <<>> /\ todo.Priority # canonicalFilterPriority)
        /\ \/ Len(options.FilterTags) = 0
           \/ \E f \in 1..Len(options.FilterTags) :
                \E t \in 1..Len(todo.Tags) :
                    options.FilterTags[f] = todo.Tags[t]

\* Mutant of ListMatch: a filter text that is no level is compared with
\* the todo's priority as it is, and a status other than "completed" is
\* taken for "incomplete".
ListMatch_StrictFilters(todo, options) ==
    LET canonicalFilterPriority == toCanonicalPriority(options.FilterPriority)
    IN  /\ ~(options.FilterStatus = "completed" /\ ~todo.Completed)
        /\ ~(options.FilterStatus \notin {"completed", "all", ""} /\ todo.Completed)
        /\ ~(options.FilterPriority # <<>> /\ todo.Priority # canonicalFilterPriority)
        /\ \/ Len(options.FilterTags) = 0
           \/ \E f \in 1..Len(options.FilterTags) :
                \E t \in 1..Len(todo.Tags) :
                    ToLower(options.FilterTags[f]) = ToLower(todo.Tags[t])

ListMatch(todo, options) ==
    LET canonicalFilterPriority == toCanonicalPriority(options.FilterPriority)
    IN  /\ ~(options.FilterStatus = "completed" /\ ~todo.Completed)
        /\ ~(options.FilterStatus = "incomplete" /\ todo.Completed)
        /\ ~(canonicalFilterPriority # <<>> /\ todo.Priority # canonicalFilterPriority)
        /\ \/ Len(options.FilterTags) = 0
           \/ \E f \in 1..Len(options.FilterTags) :
                \E t \in 1..Len(todo.Tags) :
                    ToLower(options.FilterTags[f]) = ToLower(todo.Tags[t])

RECURSIVE FilterTodos(_, _)
FilterTodos(todos, options) ==
    IF todos = <<>> THEN <<>>
    ELSE (IF ListMatch(Head(todos), options) THEN <<Head(todos)>> ELSE <<>>)
         \o FilterTodos(Tail(todos), options)

\* Mutant of SortLess: the due_date case computes the ascending answer and
\* leaves the direction to the common "desc" negation.
SortLess_DueDateNegated(a, b, options) ==
    LET less ==
            CASE options.SortBy = "id" -> a.ID < b.ID
              [] options.SortBy = "task" -> StrLess(ToLower(a.Task), ToLower(b.Task))
              [] options.SortBy = "created_at" -> a.CreatedAt < b.CreatedAt
              [] options.SortBy = "due_date" ->
                    IF a.DueDate = <<>> THEN FALSE
                    ELSE IF b.DueDate = <<>> THEN TRUE
                    ELSE a.DueDate[1] < b.DueDate[1]
              [] options.SortBy = "priority" ->
                    StrLess(ToLower(a.Priority), ToLower(b.Priority))
              [] OTHER -> a.ID < b.ID
    IN  IF options.SortOrder = "desc" THEN ~less ELSE less

\* Mutant of SortLess: priorities are compared by severity, high before
\* medium before low.
SortLess_Severity(a, b, options) ==
    LET Severity(p) == IF p = PriorityHigh THEN 1
                       ELSE IF p = PriorityMedium THEN 2 ELSE 3
    IN  IF options.SortBy = "due_date"
        THEN IF a.DueDate = <<>> /\ b.DueDate = <<>> THEN FALSE
             ELSE IF a.DueDate = <<>> THEN FALSE
             ELSE IF b.DueDate = <<>> THEN TRUE
             ELSE IF options.SortOrder = "desc"
                  THEN a.DueDate[1] > b.DueDate[1]
                  ELSE a.DueDate[1] < b.DueDate[1]
        ELSE LET less ==
                    CASE options.SortBy = "id" -> a.ID < b.ID
                      [] options.SortBy = "task" ->
                            StrLess(ToLower(a.Task), ToLower(b.Task))
                      [] options.SortBy = "created_at" -> a.CreatedAt < b.CreatedAt
                      [] options.SortBy = "priority" ->
                            Severity(a.Priority) < Severity(b.Priority)
                      [] OTHER -> a.ID < b.ID
             IN  IF options.SortOrder = "desc" THEN ~less ELSE less

\* The function handed to sort.Slice, on the elements a and b.
SortLess(a, b, options) ==
    IF options.SortBy = "due_date"
    THEN IF a.DueDate = <<>> /\ b.DueDate = <<>> THEN FALSE
         ELSE IF a.DueDate = <<>> THEN FALSE
         ELSE IF b.DueDate = <<>> THEN TRUE
         ELSE IF options.SortOrder = "desc"
              THEN a.DueDate[1] > b.DueDate[1]
              ELSE a.DueDate[1] < b.DueDate[1]
    ELSE LET less ==
                CASE options.SortBy = "id" -> a.ID < b.ID
                  [] options.SortBy = "task" -> StrLess(ToLower(a.Task), ToLower(b.Task))
                  [] options.SortBy = "created_at" -> a.CreatedAt < b.CreatedAt
                  [] options.SortBy = "priority" ->
                        StrLess(ToLower(a.Priority), ToLower(b.Priority))
                  [] OTHER -> a.ID < b.ID
         IN  IF options.SortOrder = "desc" THEN ~less ELSE less

\* sort.Slice sorts a slice of fewer than 12 elements by insertion sort:
\*   for i := 1; i < n; i++ { for j := i; j > 0 && less(j, j-1); j-- { swap } }
\* SinkDown is the inner loop for the element at index j (1-based).
\* Mutant of SinkDown: the inner loop ends after one swap.
SinkDown_OneSwap(s, j, options) ==
    IF j > 1 /\ SortLess(s[j], s[j - 1], options)
    THEN [s EXCEPT ![j] = s[j - 1], ![j - 1] = s[j]]
    ELSE s

RECURSIVE SinkDown(_, _, _)
SinkDown(s, j, options) ==
    IF j > 1 /\ SortLess(s[j], s[j - 1], options)
    THEN SinkDown([s EXCEPT ![j] = s[j - 1], ![j - 1] = s[j]], j - 1, options)
    ELSE s

RECURSIVE InsertionSort(_, _, _)
InsertionSort(s, i, options) ==
    IF i > Len(s) THEN s
    ELSE InsertionSort(SinkDown(s, i, options), i + 1, options)

\* The todos List prints, in the order it prints them.
List(tl, options) ==
    LET filteredTodos == FilterTodos(tl.Todos, options)
    IN  IF options.SortBy # ""
        THEN InsertionSort(filteredTodos, 2, options)
        ELSE filteredTodos

\* The lines List prints for a result.
ListMsgs(listed) ==
    IF Len(listed) = 0
    THEN <<User("No todos found matching the criteria.", 0)>>
    ELSE <<User("Your Todos:", 0)>>
         \o [k \in 1..Len(listed) |-> User("todo line", listed[k].ID)]

(***************************************************************************)
(* Persistence.  SaveToFile writes json.MarshalIndent of the list and     *)
(* LoadFromFile reads it back with json.Unmarshal.  A JSON document is    *)
(* kept as a record of its members, each member in the text form the      *)
(* encoder gives it: numbers in decimal, strings with their escapes,      *)
(* booleans as true/false, times as calendar fields.  A nil slice and an   *)
(* empty one are both the empty sequence, as are JSON null and [] for a    *)
(* slice.  The content of a file is the sequence of the top-level values   *)
(* in it: json.Unmarshal accepts exactly one.                              *)
(***************************************************************************)
\* The decimal text of n >= 0.
RECURSIVE FormatInt(_)
FormatInt(n) ==
    IF n < 10 THEN <<Digits[n + 1]>>
    ELSE FormatInt(n \div 10) \o <<Digits[(n % 10) + 1]>>

\* The body of a JSON string: the quote and the backslash are written
\* after a backslash (of the characters the model uses these are the two
\* the encoder escapes).
RECURSIVE Quote(_)
Quote(s) ==
    IF s = <<>> THEN <<>>
    ELSE (IF Head(s) \in {"\"", "\\"} THEN <<"\\", Head(s)>> ELSE <<Head(s)>>)
         \o Quote(Tail(s))

\* The text a JSON string body stands for; a bare quote, and a backslash
\* that no quote or backslash follows, are syntax errors.
RECURSIVE Unquote(_)
Unquote(s) ==
    IF s = <<>> THEN [s |-> <<>>, err |-> FALSE]
    ELSE IF Head(s) = "\\"
    THEN IF Len(s) >= 2 /\ s[2] \in {"\"", "\\"}
         THEN LET r == Unquote(SubSeq(s, 3, Len(s)))
              IN  [s |-> <<s[2]>> \o r.s, err |-> r.err]
         ELSE [s |-> <<>>, err |-> TRUE]
    ELSE IF Head(s) = "\""
    THEN [s |-> <<>>, err |-> TRUE]
    ELSE LET r == Unquote(Tail(s))
         IN  [s |-> <<Head(s)>> \o r.s, err |-> r.err]

\* The civil date <<year, month, day>> of a day number (what formatting a
\* time computes; DayNumber is the way back).
CivilFromDays(n) ==
    LET y == CHOOSE yy \in (n \div 366)..((n \div 365) + 1) :
                DayNumber(yy, 1, 1) <= n /\ n < DayNumber(yy + 1, 1, 1)
        m == CHOOSE mm \in 1..12 :
                /\ DayNumber(y, mm, 1) <= n
                /\ n < DayNumber(y, mm, 1) + DaysIn(y, mm)
    IN  <<y, m, n - DayNumber(y, m, 1) + 1>>

ValidDate(y, m, d) == y \in 0..9999 /\ m \in 1..12 /\ d \in 1..DaysIn(y, m)

\* time.Now() is counted in seconds from 1970-01-01T00:00:00Z.
EpochDay == DayNumber(1970, 1, 1)

\* Time.MarshalJSON for CreatedAt: the RFC 3339 text, kept as
\* <<year, month, day, second of the day>>.  The text carries the instant
\* in full; the monotonic clock reading and the *Location of the value in
\* memory are not written.
FormatTime(t) == CivilFromDays(EpochDay + (t \div 86400)) \o <<t % 86400>>

\* Time.UnmarshalJSON.
ParseTime(s) ==
    IF Len(s) = 4 /\ ValidDate(s[1], s[2], s[3]) /\ s[4] \in 0..86399
    THEN [t |-> (DayNumber(s[1], s[2], s[3]) - EpochDay) * 86400 + s[4],
          err |-> FALSE]
    ELSE [t |-> 0, err |-> TRUE]

\* A *time.Time due date (midnight UTC of a day): null for nil, else the
\* text of the day as <<year, month, day>>.
FormatDueDate(dueDate) ==
    IF dueDate = <<>> THEN <<>> ELSE CivilFromDays(dueDate[1])

ParseDueDateMember(s) ==
    IF s = <<>> THEN [t |-> <<>>, err |-> FALSE]
    ELSE IF Len(s) = 3 /\ ValidDate(s[1], s[2], s[3])
    THEN [t |-> <<DayNumber(s[1], s[2], s[3])>>, err |-> FALSE]
    ELSE [t |-> <<>>, err |-> TRUE]

\* The JSON object of a Todo, member by member (the json tags of Todo).
EncodeTodo(todo) ==
    [id |-> FormatInt(todo.ID),
     task |-> Quote(todo.Task),
     completed |-> IF todo.Completed THEN "true" ELSE "false",
     created_at |-> FormatTime(todo.CreatedAt),
     priority |-> Quote(todo.Priority),
     due_date |-> FormatDueDate(todo.DueDate),
     tags |-> [k \in 1..Len(todo.Tags) |-> Quote(todo.Tags[k])]]

DecodeTodo(e) ==
    LET id == Atoi(e.id)
        task == Unquote(e.task)
        createdAt == ParseTime(e.created_at)
        priority == Unquote(e.priority)
        dueDate == ParseDueDateMember(e.due_date)
        tags == [k \in 1..Len(e.tags) |-> Unquote(e.tags[k])]
    IN  [todo |-> [ID |-> id.n, Task |-> task.s,
                   Completed |-> e.completed = "true",
                   CreatedAt |-> createdAt.t, Priority |-> priority.s,
                   DueDate |-> dueDate.t,
                   Tags |-> [k \in 1..Len(tags) |-> tags[k].s]],
         err |-> \/ id.err \/ task.err \/ createdAt.err \/ priority.err
                 \/ dueDate.err
                 \/ e.completed \notin {"true", "false"}
                 \/ \E k \in 1..Len(tags) : tags[k].err]

\* json.MarshalIndent(tl, "", "  "): one object with the members todos and
\* next_id.  It has no error here: a Time fails to marshal only with a
\* year outside 0..9999, and neither time.Now() nor a parsed due date has
\* one.
MarshalIndent(tl) ==
    <<[todos |-> [i \in 1..Len(tl.Todos) |-> EncodeTodo(tl.Todos[i])],
       next_id |-> FormatInt(tl.NextID)]>>

\* json.Unmarshal(data, todoList) into a NewTodoList().
Unmarshal(data) ==
    IF Len(data) # 1
    THEN [tl |-> NewTodoList, err |-> TRUE]
    ELSE LET doc == data[1]
             nextID == Atoi(doc.next_id)
             todos == [i \in 1..Len(doc.todos) |-> DecodeTodo(doc.todos[i])]
         IN  IF nextID.err \/ \E i \in 1..Len(todos) : todos[i].err
             THEN [tl |-> NewTodoList, err |-> TRUE]
             ELSE [tl |-> [Todos |-> [i \in 1..Len(todos) |-> todos[i].todo],
                           NextID |-> nextID.n],
                   err |-> FALSE]

\* What is at the path of the data file: nothing ("absent"), a regular
\* file with its content ("file"), or a directory ("dir"), which
\* os.ReadFile and os.WriteFile both refuse with an error that is not
\* "does not exist".
NoFile == [state |-> "absent", data |-> <<>>]
Directory == [state |-> "dir", data |-> <<>>]
FileWith(data) == [state |-> "file", data |-> data]

\* os.ReadFile: the content, or the kind of error.
ReadFile(d) ==
    CASE d.state = "absent" -> [data |-> <<>>, err |-> "not exist"]
      [] d.state = "dir" -> [data |-> <<>>, err |-> "other"]
      [] OTHER -> [data |-> d.data, err |-> ""]

\* Mutant of WriteFile: the file is opened for appending.
WriteFile_Append(d, data, outcome) ==
    IF d.state = "dir" \/ outcome = "open fails"
    THEN [disk |-> d, err |-> TRUE]
    ELSE IF outcome = "write fails"
    THEN [disk |-> FileWith(<<>>), err |-> TRUE]
    ELSE [disk |-> FileWith(d.data \o data), err |-> FALSE]

\* os.WriteFile(filename, data, 0644): the file is created or truncated,
\* then written.  The outcome is the environment's: the open can fail
\* (nothing changes), the write can fail after the truncation (the file
\* is left without a complete document), or both succeed.
WriteFile(d, data, outcome) ==
    IF d.state = "dir" \/ outcome = "open fails"
    THEN [disk |-> d, err |-> TRUE]
    ELSE IF outcome = "write fails"
    THEN [disk |-> FileWith(<<>>), err |-> TRUE]
    ELSE [disk |-> FileWith(data), err |-> FALSE]

WriteOutcomes == {"ok", "open fails", "write fails"}

SaveToFile(tl, d, outcome) ==
    LET data == MarshalIndent(tl)
        w == WriteFile(d, data, outcome)
    IN  [disk |-> w.disk, err |-> w.err,
         msgs |-> IF w.err
                  THEN <<Log("ERROR: Failed to write todo list to file", 0)>>
                  ELSE <<Log("INFO: Todos saved", 0)>>]

\* Mutant of LoadFromFile: every read error is taken for a missing file.
LoadFromFile_AnyReadErrorIsAbsent(d) ==
    LET r == ReadFile(d)
        u == Unmarshal(r.data)
    IN  IF r.err # ""
        THEN [tl |-> <<NewTodoList>>, err |-> FALSE,
              msgs |-> <<Log("ERROR: Failed to read todo list from file", 0),
                         Log("INFO: Todo file does not exist, creating new list.", 0)>>]
        ELSE IF u.err
        THEN [tl |-> <<>>, err |-> TRUE,
              msgs |-> <<Log("ERROR: Failed to unmarshal todo list from JSON", 0)>>]
        ELSE [tl |-> <<u.tl>>, err |-> FALSE,
              msgs |-> <<Log("INFO: Todos loaded", 0)>>]

\* LoadFromFile: the *TodoList returned (<<>> for nil) and the error flag.
LoadFromFile(d) ==
    LET r == ReadFile(d)
        u == Unmarshal(r.data)
    IN  IF r.err = "not exist"
        THEN [tl |-> <<NewTodoList>>, err |-> FALSE,
              msgs |-> <<Log("ERROR: Failed to read todo list from file", 0),
                         Log("INFO: Todo file does not exist, creating new list.", 0)>>]
        ELSE IF r.err # ""
        THEN [tl |-> <<>>, err |-> TRUE,
              msgs |-> <<Log("ERROR: Failed to read todo list from file", 0)>>]
        ELSE IF u.err
        THEN [tl |-> <<>>, err |-> TRUE,
              msgs |-> <<Log("ERROR: Failed to unmarshal todo list from JSON", 0)>>]
        ELSE [tl |-> <<u.tl>>, err |-> FALSE,
              msgs |-> <<Log("INFO: Todos loaded", 0)>>]

\* The process is inside HandleCommands, before flag.Parse; inside the loop
\* of runInteractiveMode; and back in main after HandleCommands returned.
Running == [pc |-> "running", status |-> 0]
Interactive == [pc |-> "interactive", status |-> 0]
Returned == [pc |-> "returned", status |-> 0]

\* The foreground is inside no TodoList method.
Idle == [op |-> "", k |-> 0, pre |-> NewTodoList, post |-> NewTodoList]

\* The auto-save goroutine waiting in <-time.After(interval), and the same
\* record with pc "off" where no such goroutine runs.
Sleeping == [pc |-> "sleep", n |-> 0, got |-> <<>>, NextID |-> 0]
SaverOff == [Sleeping EXCEPT !.pc = "off"]

(***************************************************************************)
(* State.                                                                  *)
(***************************************************************************)
VARIABLES
    todoList,         \* the live *TodoList: [Todos, NextID]
    lastActionState,  \* the package-level undo record
    clock,            \* the last value time.Now() returned; the session
                      \* reads a command line between two adds, so each
                      \* Add reads a later instant than the one before
    out,              \* the command just handled: its input, the state it
                      \* started from, its results and the lines it emitted
    scen,             \* how many steps of the spec's first concrete scenario
                      \* the session has performed so far, -1 once it left it
    disk,             \* the destination config.DataFile names: what is at
                      \* that path and, for a file, its content
    proc,             \* the process: where main is (pc) and, once it has
                      \* ended, its exit status
    fg,               \* the TodoList method the foreground is inside of,
                      \* between two of its writes to the list
    saver,            \* the goroutine StartAutoSave started: where it is in
                      \* its loop and what its encoder has read so far
    seen              \* the values the list had between two foreground
                      \* methods while the save in progress was reading

vars == <<todoList, lastActionState, clock, out, scen, disk, proc, fg, saver, seen>>

\* The zero value of lastAction.
NoAction ==
    [Type |-> "ActionNone", ID |-> 0, DeletedTodo |-> <<>>,
     PreviousCompletedStatus |-> FALSE]

NoCommand ==
    [cmd |-> "", idTok |-> <<>>, id |-> 0, task |-> <<>>, priority |-> <<>>,
     dueDateStr |-> <<>>, tags |-> <<>>, options |-> ZeroOptions,
     confirm |-> FALSE, pre |-> NewTodoList, preAction |-> NoAction,
     called |-> FALSE, err |-> FALSE, ret |-> ZeroTodo, listed |-> <<>>,
     loaded |-> <<>>, args |-> <<>>, msgs |-> <<>>]

\* A command record for the handler of cmd started in the current state.
Command(cmd) ==
    [NoCommand EXCEPT !.cmd = cmd, !.pre = todoList, !.preAction = lastActionState]

(***************************************************************************)
(* Inputs the session draws from.                                          *)
(***************************************************************************)
BuyMilk == <<"B","u","y"," ","m","i","l","k">>
ShipRelease == <<"S","h","i","p"," ","r","e","l","e","a","s","e">>
TagWork == <<"w","o","r","k">>
TagUrgent == <<"u","r","g","e","n","t">>
Due20241225 == <<2024, 12, 25>>

\* The arguments of the session's n-th successful add: task, -p, -d and -t
\* values; the empty text stands for an argument that was not given.  The
\* session adds the two tasks of the specification's scenario first, and
\* after them tasks with no priority given.
GoodAdd(n) ==
    IF n = 1
    THEN [task |-> BuyMilk, priority |-> <<"l","o","w">>,
          dueDateStr |-> <<>>, tags |-> <<>>]
    ELSE IF n = 2
    THEN [task |-> ShipRelease, priority |-> <<"h","i","g","h">>,
          dueDateStr |-> Due20241225, tags |-> <<TagWork, TagUrgent>>]
    ELSE [task |-> <<"A">>, priority |-> <<>>,
          dueDateStr |-> <<2025, 1, 1>>, tags |-> <<TagWork>>]

\* What an add command may be given: the next task, a command with no
\* task, and a command whose due date is no date.
AddInputs ==
    { GoodAdd(todoList.NextID),
      [task |-> <<>>, priority |-> <<"L","o","w">>,
       dueDateStr |-> <<>>, tags |-> <<>>],
      [task |-> <<"A">>, priority |-> <<"H","I","G","H">>,
       dueDateStr |-> <<2024, 2, 30>>, tags |-> <<>>] }

\* strconv.Itoa for 0..9.
Itoa(n) == <<Digits[n + 1]>>

\* The identifier token of a command, as typed: a decimal number, a token
\* that is no number, or none (the empty text).  The next identifier,
\* NextID, is one no record has.  The session deletes any record, completes
\* and uncompletes the first two tasks, and edits the first.
BadTokens == {<<"x">>, <<>>}
DeleteTokens == {Itoa(n) : n \in 1..todoList.NextID} \cup BadTokens
CompleteTokens == {Itoa(1), Itoa(2), Itoa(todoList.NextID)} \cup BadTokens
EditTokens == {Itoa(1), Itoa(todoList.NextID)} \cup BadTokens

\* An edit command: its identifier token and new text; the empty text is a
\* command that ends after the identifier.
EditInputs ==
    {<<tok, <<"B">>>> : tok \in EditTokens} \cup {<<Itoa(1), <<>>>>}

Queries == {<<"M","I">>, <<>>}

\* The options of a list command: the flag defaults with a status filter.
ListOptionSets ==
    { [ZeroOptions EXCEPT !.FilterStatus = st, !.SortBy = "id", !.SortOrder = "asc"] :
        st \in {"all", "incomplete"} }

(***************************************************************************)
(* The concrete scenario of the specification, as an observer of the      *)
(* session: Add("Buy milk", low); Add("Ship release", high, due           *)
(* 2024-12-25, [work, urgent]); Complete(1); List(status=incomplete);     *)
(* ClearCompleted(); Undo.                                                 *)
(***************************************************************************)
ScenarioStep(k, c) ==
    CASE k = 1 -> /\ c.cmd = "add" /\ c.called
                  /\ c.task = BuyMilk /\ c.priority = <<"l","o","w">>
                  /\ c.dueDateStr = <<>> /\ c.tags = <<>>
      [] k = 2 -> /\ c.cmd = "add" /\ c.called
                  /\ c.task = ShipRelease /\ c.priority = <<"h","i","g","h">>
                  /\ c.dueDateStr = Due20241225 /\ c.tags = <<TagWork, TagUrgent>>
      [] k = 3 -> c.cmd = "complete" /\ c.called /\ c.id = 1
      [] k = 4 -> c.cmd = "list" /\ c.options.FilterStatus = "incomplete"
      [] k = 5 -> c.cmd = "clear-completed" /\ c.called
      [] k = 6 -> c.cmd = "undo"
      [] OTHER -> FALSE

Observe(c) ==
    IF scen >= 0 /\ ScenarioStep(scen + 1, c)
    THEN scen + 1
    ELSE -1

\* What every handler does with its command record c and the resulting
\* list and undo record.
Finish(c, tl, action) ==
    /\ out' = c
    /\ todoList' = tl
    /\ lastActionState' = action
    /\ scen' = Observe(c)
    /\ UNCHANGED <<disk, proc, fg, saver, seen>>

(***************************************************************************)
(* The handlers of runInteractiveMode, one action per command.            *)
(***************************************************************************)
\* Mutant of AddAction: the counter itself is recorded.
AddAction_OffByOne(tl) ==
    [NoAction EXCEPT !.Type = "ActionAdd", !.ID = tl.NextID]

\* The undo record stored after Add returned, tl being the list then.
AddAction(tl) ==
    [NoAction EXCEPT !.Type = "ActionAdd", !.ID = tl.NextID - 1]

InteractiveAdd ==
    \E in \in AddInputs :
      LET c == [Command("add") EXCEPT !.task = in.task, !.priority = in.priority,
                    !.dueDateStr = in.dueDateStr, !.tags = in.tags]
          parsed == parseDueDate(in.dueDateStr)
      IN  IF in.task = <<>>
          THEN /\ Finish([c EXCEPT !.msgs = <<User("Usage: add", 0),
                                              Log("ERROR: missing task", 0)>>],
                         todoList, lastActionState)
               /\ UNCHANGED clock
          ELSE IF in.dueDateStr # <<>> /\ parsed.err
          THEN /\ Finish([c EXCEPT !.msgs = <<User("Invalid due date format.", 0),
                                              Log("ERROR: invalid due date", 0)>>],
                         todoList, lastActionState)
               /\ UNCHANGED clock
          ELSE /\ todoList.NextID <= MaxAdds
               /\ LET t == clock + 1
                  IN
                    /\ clock' = t
                    /\ LET dueDate == IF in.dueDateStr # <<>> THEN <<parsed.t>> ELSE <<>>
                           r == Add(todoList, in.task,
                                    toCanonicalPriority(in.priority), dueDate,
                                    in.tags, t)
                       IN  Finish([c EXCEPT !.called = TRUE, !.ret = r.todo,
                                            !.msgs = r.msgs],
                                  r.tl,
                                  AddAction(r.tl))

\* Mutant of InteractiveEdit: a successful edit resets the undo record.
InteractiveEdit_ResetsAction ==
    \E in \in EditInputs :
      LET idTok == in[1]
          newTask == in[2]
          c == [Command("edit") EXCEPT !.idTok = idTok, !.task = newTask]
          a == Atoi(idTok)
          r == EditTask(todoList, a.n, newTask)
      IN  /\ UNCHANGED clock
          /\ IF idTok = <<>> \/ newTask = <<>>
             THEN Finish([c EXCEPT !.msgs = <<User("Usage: edit", 0),
                                              Log("ERROR: missing ID or new task", 0)>>],
                         todoList, lastActionState)
             ELSE IF a.err
             THEN Finish([c EXCEPT !.msgs = <<User("Invalid ID.", 0),
                                              Log("ERROR: invalid ID", 0)>>],
                         todoList, lastActionState)
             ELSE Finish([c EXCEPT !.called = TRUE, !.id = a.n, !.err = r.err,
                            !.msgs = IF r.err
                                     THEN <<Log("ERROR: Failed to edit todo", a.n),
                                            User("todo with ID not found", a.n)>>
                                     ELSE r.msgs],
                         r.tl, IF r.err THEN lastActionState ELSE NoAction)

InteractiveEdit ==
    \E in \in EditInputs :
      LET idTok == in[1]
          newTask == in[2]
          c == [Command("edit") EXCEPT !.idTok = idTok, !.task = newTask]
          a == Atoi(idTok)
          r == EditTask(todoList, a.n, newTask)
      IN  /\ UNCHANGED clock
          /\ IF idTok = <<>> \/ newTask = <<>>
             THEN Finish([c EXCEPT !.msgs = <<User("Usage: edit", 0),
                                              Log("ERROR: missing ID or new task", 0)>>],
                         todoList, lastActionState)
             ELSE IF a.err
             THEN Finish([c EXCEPT !.msgs = <<User("Invalid ID.", 0),
                                              Log("ERROR: invalid ID", 0)>>],
                         todoList, lastActionState)
             ELSE Finish([c EXCEPT !.called = TRUE, !.id = a.n, !.err = r.err,
                            !.msgs = IF r.err
                                     THEN <<Log("ERROR: Failed to edit todo", a.n),
                                            User("todo with ID not found", a.n)>>
                                     ELSE r.msgs],
                         r.tl, lastActionState)

InteractiveClearCompleted ==
    \E yes \in BOOLEAN :
      LET c == [Command("clear-completed") EXCEPT !.confirm = yes]
          r == ClearCompleted(todoList)
      IN  /\ UNCHANGED clock
          /\ IF yes
             THEN Finish([c EXCEPT !.called = TRUE, !.msgs = r.msgs],
                         r.tl, lastActionState)
             ELSE Finish([c EXCEPT !.msgs =
                                     <<User("Clearing completed todos cancelled.", 0)>>],
                         todoList, lastActionState)

InteractiveSearch ==
    \E query \in Queries :
      LET c == [Command("search") EXCEPT !.task = query]
          results == SearchTasks(todoList, query)
          listed == List(results, ZeroOptions)
      IN  /\ UNCHANGED clock
          /\ IF query = <<>>
             THEN Finish([c EXCEPT !.msgs = <<User("Usage: search", 0),
                                              Log("ERROR: missing query", 0)>>],
                         todoList, lastActionState)
             ELSE IF Len(results.Todos) = 0
             THEN Finish([c EXCEPT !.called = TRUE,
                                   !.msgs = <<User("No tasks found matching", 0)>>],
                         todoList, lastActionState)
             ELSE Finish([c EXCEPT !.called = TRUE, !.listed = listed,
                                   !.msgs = <<User("Tasks matching", 0)>>
                                            \o ListMsgs(listed)],
                         todoList, lastActionState)

\* The lines of a handler whose identifier token is missing or no number.
BadIdMsgs(cmd, idTok) ==
    IF idTok = <<>>
    THEN <<User("Usage: " \o cmd, 0), Log("ERROR: missing ID", 0)>>
    ELSE <<User("Invalid ID.", 0), Log("ERROR: invalid ID", 0)>>

\* The lines of a handler whose TodoList call returned not-found.
NotFoundMsgs(id) ==
    <<Log("ERROR: Failed", id), User("todo with ID not found", id)>>

\* Mutant of InteractiveComplete: a complete that fails empties the undo
\* record.
InteractiveComplete_ForgetsOnError ==
    \E idTok \in CompleteTokens :
      LET c == [Command("complete") EXCEPT !.idTok = idTok]
          a == Atoi(idTok)
          r == Complete(todoList, a.n)
      IN  /\ UNCHANGED clock
          /\ IF idTok = <<>> \/ a.err
             THEN Finish([c EXCEPT !.msgs = BadIdMsgs("complete", idTok)],
                         todoList, lastActionState)
             ELSE IF r.err
             THEN Finish([c EXCEPT !.called = TRUE, !.id = a.n, !.err = TRUE,
                                   !.msgs = NotFoundMsgs(a.n)],
                         r.tl, NoAction)
             ELSE Finish([c EXCEPT !.called = TRUE, !.id = a.n, !.msgs = r.msgs],
                         r.tl,
                         [NoAction EXCEPT !.Type = "ActionComplete", !.ID = a.n,
                                          !.PreviousCompletedStatus = FALSE])

InteractiveComplete ==
    \E idTok \in CompleteTokens :
      LET c == [Command("complete") EXCEPT !.idTok = idTok]
          a == Atoi(idTok)
          r == Complete(todoList, a.n)
      IN  /\ UNCHANGED clock
          /\ IF idTok = <<>> \/ a.err
             THEN Finish([c EXCEPT !.msgs = BadIdMsgs("complete", idTok)],
                         todoList, lastActionState)
             ELSE IF r.err
             THEN Finish([c EXCEPT !.called = TRUE, !.id = a.n, !.err = TRUE,
                                   !.msgs = NotFoundMsgs(a.n)],
                         r.tl, lastActionState)
             ELSE Finish([c EXCEPT !.called = TRUE, !.id = a.n, !.msgs = r.msgs],
                         r.tl,
                         [NoAction EXCEPT !.Type = "ActionComplete", !.ID = a.n,
                                          !.PreviousCompletedStatus = FALSE])

\* Mutant of InteractiveUncomplete: the action is recorded before the
\* result of Uncomplete is looked at.
InteractiveUncomplete_RecordsFailure ==
    \E idTok \in CompleteTokens :
      LET c == [Command("uncomplete") EXCEPT !.idTok = idTok]
          a == Atoi(idTok)
          r == Uncomplete(todoList, a.n)
      IN  /\ UNCHANGED clock
          /\ IF idTok = <<>> \/ a.err
             THEN Finish([c EXCEPT !.msgs = BadIdMsgs("uncomplete", idTok)],
                         todoList, lastActionState)
             ELSE IF r.err
             THEN Finish([c EXCEPT !.called = TRUE, !.id = a.n, !.err = TRUE,
                                   !.msgs = NotFoundMsgs(a.n)],
                         r.tl,
                         [NoAction EXCEPT !.Type = "ActionUncomplete", !.ID = a.n,
                                          !.PreviousCompletedStatus = TRUE])
             ELSE Finish([c EXCEPT !.called = TRUE, !.id = a.n, !.msgs = r.msgs],
                         r.tl,
                         [NoAction EXCEPT !.Type = "ActionUncomplete", !.ID = a.n,
                                          !.PreviousCompletedStatus = TRUE])

InteractiveUncomplete ==
    \E idTok \in CompleteTokens :
      LET c == [Command("uncomplete") EXCEPT !.idTok = idTok]
          a == Atoi(idTok)
          r == Uncomplete(todoList, a.n)
      IN  /\ UNCHANGED clock
          /\ IF idTok = <<>> \/ a.err
             THEN Finish([c EXCEPT !.msgs = BadIdMsgs("uncomplete", idTok)],
                         todoList, lastActionState)
             ELSE IF r.err
             THEN Finish([c EXCEPT !.called = TRUE, !.id = a.n, !.err = TRUE,
                                   !.msgs = NotFoundMsgs(a.n)],
                         r.tl, lastActionState)
             ELSE Finish([c EXCEPT !.called = TRUE, !.id = a.n, !.msgs = r.msgs],
                         r.tl,
                         [NoAction EXCEPT !.Type = "ActionUncomplete", !.ID = a.n,
                                          !.PreviousCompletedStatus = TRUE])

\* Mutant of DeleteAction: the record keeps the identifier only.
DeleteAction_NoCopy(id, deletedTodo) ==
    [NoAction EXCEPT !.Type = "ActionDelete", !.ID = id]

\* The undo record stored after Delete returned deletedTodo.
DeleteAction(id, deletedTodo) ==
    [NoAction EXCEPT !.Type = "ActionDelete", !.ID = id,
                     !.DeletedTodo = <<deletedTodo>>]

InteractiveDelete ==
    \E idTok \in DeleteTokens, yes \in BOOLEAN :
      LET c == [Command("delete") EXCEPT !.idTok = idTok,
                    !.confirm = yes /\ idTok # <<>> /\ ~Atoi(idTok).err]
          a == Atoi(idTok)
          r == Delete(todoList, a.n)
      IN  /\ UNCHANGED clock
          /\ IF idTok = <<>> \/ a.err
             THEN Finish([c EXCEPT !.msgs = BadIdMsgs("delete", idTok)],
                         todoList, lastActionState)
             ELSE IF ~yes
             THEN Finish([c EXCEPT !.id = a.n,
                                   !.msgs = <<User("Deletion of todo cancelled.", a.n)>>],
                         todoList, lastActionState)
             ELSE IF r.err
             THEN Finish([c EXCEPT !.called = TRUE, !.id = a.n, !.err = TRUE,
                                   !.msgs = NotFoundMsgs(a.n)],
                         r.tl, lastActionState)
             ELSE Finish([c EXCEPT !.called = TRUE, !.id = a.n, !.ret = r.todo,
                                   !.msgs = r.msgs],
                         r.tl,
                         DeleteAction(a.n, r.todo))

\* The interactive list command: List(ListOptions{}).
InteractiveList ==
    LET listed == List(todoList, ZeroOptions)
    IN  /\ UNCHANGED clock
        /\ Finish([Command("list") EXCEPT !.called = TRUE, !.listed = listed,
                                          !.msgs = ListMsgs(listed)],
                  todoList, lastActionState)

\* The list command with options, as processSingleCommand builds them.
ListCommand ==
    \E options \in ListOptionSets :
      LET listed == List(todoList, options)
      IN  /\ UNCHANGED clock
          /\ Finish([Command("list") EXCEPT !.called = TRUE, !.options = options,
                                            !.listed = listed,
                                            !.msgs = ListMsgs(listed)],
                    todoList, lastActionState)

\* Mutant of Undo: undoing an add hands the identifier back to the counter.
Undo_ReusesID(tl, action) ==
    CASE action.Type = "ActionAdd" ->
            LET r == Delete(tl, action.ID)
            IN  [tl |-> [r.tl EXCEPT !.NextID = IF r.err THEN @ ELSE action.ID],
                 err |-> r.err,
                 msgs |-> IF r.err
                          THEN <<Log("ERROR: Failed to undo add", action.ID),
                                 User("Undo failed: ", action.ID)>>
                          ELSE r.msgs \o <<User("Undid adding todo", action.ID)>>]
      [] action.Type = "ActionComplete" ->
            LET r == Uncomplete(tl, action.ID)
            IN  [tl |-> r.tl, err |-> r.err,
                 msgs |-> IF r.err
                          THEN <<Log("ERROR: Failed to undo complete", action.ID),
                                 User("Undo failed: ", action.ID)>>
                          ELSE r.msgs \o <<User("Undid completing todo", action.ID)>>]
      [] action.Type = "ActionDelete" ->
            IF action.DeletedTodo # <<>>
            THEN [tl |-> [tl EXCEPT !.Todos = Append(tl.Todos, action.DeletedTodo[1])],
                  err |-> FALSE,
                  msgs |-> <<User("Undid deleting todo", action.ID)>>]
            ELSE [tl |-> tl, err |-> TRUE,
                  msgs |-> <<User("Cannot undo delete: no todo data stored.", 0),
                             Log("ERROR: Undo error", 0)>>]
      [] action.Type = "ActionUncomplete" ->
            LET r == Complete(tl, action.ID)
            IN  [tl |-> r.tl, err |-> r.err,
                 msgs |-> IF r.err
                          THEN <<Log("ERROR: Failed to undo uncomplete", action.ID),
                                 User("Undo failed: ", action.ID)>>
                          ELSE r.msgs \o <<User("Undid uncompleting todo", action.ID)>>]
      [] OTHER ->
            [tl |-> tl, err |-> FALSE, msgs |-> <<User("No action to undo.", 0)>>]

\* Mutant of Undo: with no action recorded the switch falls into the add case.
Undo_NoneFails(tl, action) ==
    CASE action.Type = "ActionAdd" ->
            LET r == Delete(tl, action.ID)
            IN  [tl |-> r.tl, err |-> r.err,
                 msgs |-> IF r.err
                          THEN <<Log("ERROR: Failed to undo add", action.ID),
                                 User("Undo failed: ", action.ID)>>
                          ELSE r.msgs \o <<User("Undid adding todo", action.ID)>>]
      [] action.Type = "ActionComplete" ->
            LET r == Uncomplete(tl, action.ID)
            IN  [tl |-> r.tl, err |-> r.err,
                 msgs |-> IF r.err
                          THEN <<Log("ERROR: Failed to undo complete", action.ID),
                                 User("Undo failed: ", action.ID)>>
                          ELSE r.msgs \o <<User("Undid completing todo", action.ID)>>]
      [] action.Type = "ActionDelete" ->
            IF action.DeletedTodo # <<>>
            THEN [tl |-> [tl EXCEPT !.Todos = Append(tl.Todos, action.DeletedTodo[1])],
                  err |-> FALSE,
                  msgs |-> <<User("Undid deleting todo", action.ID)>>]
            ELSE [tl |-> tl, err |-> TRUE,
                  msgs |-> <<User("Cannot undo delete: no todo data stored.", 0),
                             Log("ERROR: Undo error", 0)>>]
      [] action.Type = "ActionUncomplete" ->
            LET r == Complete(tl, action.ID)
            IN  [tl |-> r.tl, err |-> r.err,
                 msgs |-> IF r.err
                          THEN <<Log("ERROR: Failed to undo uncomplete", action.ID),
                                 User("Undo failed: ", action.ID)>>
                          ELSE r.msgs \o <<User("Undid uncompleting todo", action.ID)>>]
      [] OTHER ->
            [tl |-> tl, err |-> TRUE,
             msgs |-> <<Log("ERROR: Failed to undo add", action.ID),
                        User("Undo failed: ", action.ID)>>]

\* The switch of the undo command: the list after it, whether the reversing
\* call failed, and the lines emitted.
Undo(tl, action) ==
    CASE action.Type = "ActionAdd" ->
            LET r == Delete(tl, action.ID)
            IN  [tl |-> r.tl, err |-> r.err,
                 msgs |-> IF r.err
                          THEN <<Log("ERROR: Failed to undo add", action.ID),
                                 User("Undo failed: ", action.ID)>>
                          ELSE r.msgs \o <<User("Undid adding todo", action.ID)>>]
      [] action.Type = "ActionComplete" ->
            LET r == Uncomplete(tl, action.ID)
            IN  [tl |-> r.tl, err |-> r.err,
                 msgs |-> IF r.err
                          THEN <<Log("ERROR: Failed to undo complete", action.ID),
                                 User("Undo failed: ", action.ID)>>
                          ELSE r.msgs \o <<User("Undid completing todo", action.ID)>>]
      [] action.Type = "ActionDelete" ->
            IF action.DeletedTodo # <<>>
            THEN [tl |-> [tl EXCEPT !.Todos = Append(tl.Todos, action.DeletedTodo[1])],
                  err |-> FALSE,
                  msgs |-> <<User("Undid deleting todo", action.ID)>>]
            ELSE [tl |-> tl, err |-> TRUE,
                  msgs |-> <<User("Cannot undo delete: no todo data stored.", 0),
                             Log("ERROR: Undo error", 0)>>]
      [] action.Type = "ActionUncomplete" ->
            LET r == Complete(tl, action.ID)
            IN  [tl |-> r.tl, err |-> r.err,
                 msgs |-> IF r.err
                          THEN <<Log("ERROR: Failed to undo uncomplete", action.ID),
                                 User("Undo failed: ", action.ID)>>
                          ELSE r.msgs \o <<User("Undid uncompleting todo", action.ID)>>]
      [] OTHER ->
            [tl |-> tl, err |-> FALSE, msgs |-> <<User("No action to undo.", 0)>>]

\* Mutant of ClearedAction: the record is left as it was.
ClearedAction_Keep(action) == action

\* The undo record after the undo command: every field cleared.
ClearedAction(action) ==
    [action EXCEPT !.Type = "ActionNone", !.ID = 0, !.DeletedTodo = <<>>,
                   !.PreviousCompletedStatus = FALSE]

InteractiveUndo ==
    LET r == Undo(todoList, lastActionState)
    IN  /\ UNCHANGED clock
        /\ Finish([Command("undo") EXCEPT !.called = TRUE, !.err = r.err,
                                          !.msgs = r.msgs],
                  r.tl, ClearedAction(lastActionState))

(***************************************************************************)
(* The specification: the session starts on the list LoadFromFile returns *)
(* when there is no data file, with no action recorded.                   *)
(***************************************************************************)
Init ==
    /\ todoList = NewTodoList
    /\ lastActionState = NoAction
    /\ clock = 0
    /\ out = NoCommand
    /\ scen = 0
    /\ disk = NoFile
    /\ proc = Interactive
    /\ fg = Idle
    /\ saver = Sleeping
    /\ seen = {}

Next ==
    \/ InteractiveAdd
    \/ InteractiveEdit
    \/ InteractiveClearCompleted
    \/ InteractiveSearch
    \/ InteractiveComplete
    \/ InteractiveUncomplete
    \/ InteractiveDelete
    \/ InteractiveList
    \/ ListCommand
    \/ InteractiveUndo

Spec == Init /\ [][Next]_vars

(***************************************************************************)
(* Add, SearchTasks and List as functions of their arguments: a list the  *)
(* session can hold is drawn, and one call is made on it.                 *)
(***************************************************************************)
\* The drawn list holds at most MaxTodos todos.
MaxTodos == 3

TagWORK == <<"W","O","R","K">>
Milk == <<"M","I","L","K">>

\* Four todos as Add and Complete leave them, with the given identifier;
\* the k-th Add of a session reads the clock at k.
SampleTodo(k, id) ==
    CASE k = 1 -> [ID |-> id, Task |-> BuyMilk, Completed |-> FALSE,
                   CreatedAt |-> id, Priority |-> PriorityLow,
                   DueDate |-> <<>>, Tags |-> <<>>]
      [] k = 2 -> [ID |-> id, Task |-> ShipRelease, Completed |-> FALSE,
                   CreatedAt |-> id, Priority |-> PriorityHigh,
                   DueDate |-> <<DayNumber(2024, 12, 25)>>,
                   Tags |-> <<TagWork, TagUrgent>>]
      [] k = 3 -> [ID |-> id, Task |-> <<"A">>, Completed |-> TRUE,
                   CreatedAt |-> id, Priority |-> PriorityMedium,
                   DueDate |-> <<DayNumber(2025, 1, 1)>>,
                   Tags |-> <<TagWORK>>]
      [] OTHER -> [ID |-> id, Task |-> Milk, Completed |-> TRUE,
                   CreatedAt |-> id, Priority |-> PriorityHigh,
                   DueDate |-> <<>>, Tags |-> <<TagUrgent>>]

\* The lists drawn: n todos, each one of the samples, with identifiers
\* 1..n in the order of the adds or in the opposite order (deleting a todo
\* and undoing the delete moves it to the end, so any order can arise).
QueryLists ==
    UNION { { [Todos |-> [i \in 1..n |->
                            SampleTodo(f[i], IF rev THEN n + 1 - i ELSE i)],
               NextID |-> n + 1] :
                f \in [1..n -> 1..4], rev \in BOOLEAN } :
            n \in 0..MaxTodos }

\* ListOptions with filters and no sort; "done" is a status and "urgent" a
\* priority that List does not know.
FilterOptionSets ==
    { [ZeroOptions EXCEPT !.FilterStatus = st, !.FilterPriority = p,
                          !.FilterTags = tg] :
        st \in {"all", "completed", "incomplete", "done"},
        p \in {<<>>, <<"H","i","g","h">>, <<"l","o","w">>, TagUrgent},
        tg \in {<<>>, <<TagWork>>, <<<<"U","r","g","e","n","t">>, Milk>>} }

\* ListOptions with a sort: every key the switch knows and one it does
\* not, in both directions, on all todos and on the incomplete ones.
SortOptionSets ==
    { [ZeroOptions EXCEPT !.FilterStatus = st, !.SortBy = k, !.SortOrder = o] :
        st \in {"all"},
        k \in {"id", "task", "created_at", "due_date", "priority", "bogus"},
        o \in {"asc", "desc"} }
    \cup
    { [ZeroOptions EXCEPT !.FilterStatus = "incomplete", !.SortBy = k,
                          !.SortOrder = "desc"] :
        k \in {"due_date", "priority"} }

SearchQueries ==
    { <<>>, <<"M","I">>, TagWork, <<"R">>, <<"z","z">>, <<"r","k"," ">> }

\* Priority arguments: the three levels in several spellings, and texts
\* that are no level.
PriorityInputs ==
    { PriorityHigh, <<"H","I","G","H">>, <<"H","i","g","h">>, <<"h","i","G","h">>,
      PriorityMedium, <<"M","E","D","I","U","M">>, <<"M","e","d","i","u","m">>,
      PriorityLow, <<"L","O","W">>, <<"L","o","w">>, <<"l","o","W">>,
      <<>>, TagUrgent, <<"h","i","g">>, <<"l","o","w"," ">>, <<"1">> }

QueryInit ==
    /\ todoList \in QueryLists
    /\ lastActionState = NoAction
    /\ clock = Len(todoList.Todos)
    /\ out = NoCommand
    /\ scen = 0
    /\ disk = NoFile
    /\ proc = Running
    /\ fg = Idle
    /\ saver = SaverOff
    /\ seen = {}

\* Mutant of QueryList: the sort is done on the list's own slice.
QueryList_SortsInPlace ==
    \E options \in FilterOptionSets \cup SortOptionSets :
      LET listed == List(todoList, options)
      IN  /\ out = NoCommand
          /\ out' = [Command("list") EXCEPT !.called = TRUE, !.options = options,
                                            !.listed = listed,
                                            !.msgs = ListMsgs(listed)]
          /\ todoList' = [todoList EXCEPT !.Todos = listed]
          /\ UNCHANGED <<lastActionState, clock, scen, disk, proc, fg, saver, seen>>

\* tl.List(options).
QueryList ==
    \E options \in FilterOptionSets \cup SortOptionSets :
      LET listed == List(todoList, options)
      IN  /\ out = NoCommand
          /\ out' = [Command("list") EXCEPT !.called = TRUE, !.options = options,
                                            !.listed = listed,
                                            !.msgs = ListMsgs(listed)]
          /\ UNCHANGED <<todoList, lastActionState, clock, scen, disk, proc, fg, saver, seen>>

\* tl.SearchTasks(query).
QuerySearch ==
    \E query \in SearchQueries :
      LET results == SearchTasks(todoList, query)
      IN  /\ out = NoCommand
          /\ out' = [Command("search") EXCEPT !.called = TRUE, !.task = query,
                                              !.listed = results.Todos]
          /\ UNCHANGED <<todoList, lastActionState, clock, scen, disk, proc, fg, saver, seen>>

\* tl.Add(task, priority, nil, tags), called with the priority as given
\* (cmd "Add") or, as the add handlers do, with its canonical form
\* (cmd "add").
QueryAdd ==
    \E priority \in PriorityInputs, handler \in BOOLEAN :
      LET r == Add(todoList, <<"A">>,
                   IF handler THEN toCanonicalPriority(priority) ELSE priority,
                   <<>>, <<>>, clock + 1)
      IN  /\ out = NoCommand
          /\ out' = [Command(IF handler THEN "add" ELSE "Add") EXCEPT
                        !.called = TRUE, !.task = <<"A">>, !.priority = priority,
                        !.err = r.err, !.ret = r.todo, !.msgs = r.msgs]
          /\ todoList' = r.tl
          /\ clock' = clock + 1
          /\ UNCHANGED <<lastActionState, scen, disk, proc, fg, saver, seen>>

\* tl.EditTask(id, newTask), for the identifier of each todo and one no
\* todo has, with a new text and with the empty text.
QueryEdit ==
    \E id \in 1..(Len(todoList.Todos) + 1), newTask \in {<<"B">>, <<>>} :
      LET r == EditTask(todoList, id, newTask)
      IN  /\ out = NoCommand
          /\ out' = [Command("EditTask") EXCEPT
                        !.called = TRUE, !.id = id, !.task = newTask,
                        !.err = r.err, !.msgs = r.msgs]
          /\ todoList' = r.tl
          /\ UNCHANGED <<lastActionState, clock, scen, disk, proc, fg, saver, seen>>

QueryNext ==
    \/ QueryList
    \/ QuerySearch
    \/ QueryAdd
    \/ QueryEdit

SpecQuery == QueryInit /\ [][QueryNext]_vars

(***************************************************************************)
(* The process from launch to exit, run after run on the same data file:  *)
(* main loads the list, HandleCommands runs an interactive session, the   *)
(* auto-save goroutine saves now and then, main saves once more and ends.  *)
(* A SaveToFile is one step here.                                          *)
(***************************************************************************)
\* The runs add at most MaxStored todos between them.
MaxStored == 2

\* A todo an earlier run has added and completed: its texts need escapes,
\* it is due on a leap day and was created in the last second of a day.
SavedTodo ==
    [ID |-> 1, Task |-> <<"a", "\"", "\\", "b">>, Completed |-> TRUE,
     CreatedAt |-> (DayNumber(2024, 2, 29) - EpochDay) * 86400 + 86399,
     Priority |-> PriorityHigh,
     DueDate |-> <<DayNumber(2024, 2, 29)>>,
     Tags |-> <<TagWork, <<"\\">>>>]

SavedList == [Todos |-> <<SavedTodo>>, NextID |-> 2]

\* The document that run left in the file, as it is written there.
SavedDocument ==
    [todos |-> <<[id |-> <<"1">>,
                  task |-> <<"a", "\\", "\"", "\\", "\\", "b">>,
                  completed |-> "true",
                  created_at |-> <<2024, 2, 29, 86399>>,
                  priority |-> <<"h","i","g","h">>,
                  due_date |-> <<2024, 2, 29>>,
                  tags |-> <<<<"w","o","r","k">>, <<"\\", "\\">>>>]>>,
     next_id |-> <<"2">>]

\* What the first run finds at the path: nothing, a directory, an empty
\* file, a document whose next_id is no number, a document with a
\* created_at that is no date, and the list an earlier run saved.
InitialDisks ==
    { NoFile,
      Directory,
      FileWith(<<>>),
      FileWith(<<[todos |-> <<>>, next_id |-> <<"x">>]>>),
      FileWith(<<[SavedDocument EXCEPT
                    !.todos[1].created_at = <<2023, 2, 29, 0>>]>>),
      FileWith(<<SavedDocument>>) }

\* The first run is launched two seconds before the end of a year.
LaunchTime == (DayNumber(2026, 12, 31) - EpochDay) * 86400 + 86398

Launched == [pc |-> "start", status |-> 0]
Exited(status) == [pc |-> "exited", status |-> status]

StoreInit ==
    /\ todoList = NewTodoList
    /\ lastActionState = NoAction
    /\ clock = LaunchTime
    /\ out = NoCommand
    /\ scen = 0
    /\ disk \in InitialDisks
    /\ proc = Launched
    /\ fg = Idle
    /\ saver = SaverOff
    /\ seen = {}

\* main up to HandleCommands: LoadConfig, whose outcome is the
\* environment's, then LoadFromFile; either error ends the process with
\* os.Exit(1).
\* Mutant of Startup: a list that fails to load is replaced by the empty
\* list, which is saved.
Startup_SavesEmptyOnFailure ==
    \E configOK \in BOOLEAN :
      LET c == Command("load")
          r == LoadFromFile(disk)
      IN  /\ proc.pc = "start"
          /\ UNCHANGED <<lastActionState, clock, scen, fg, seen>>
          /\ IF ~configOK
             THEN /\ out' = [c EXCEPT !.msgs =
                                <<Log("ERROR: Failed to load configuration", 0)>>]
                  /\ proc' = Exited(1)
                  /\ UNCHANGED <<todoList, saver, disk>>
             ELSE IF r.err
             THEN /\ out' = [c EXCEPT !.called = TRUE, !.err = TRUE,
                                !.loaded = r.tl,
                                !.msgs = r.msgs \o
                                  <<Log("ERROR: Failed to load todo list", 0),
                                    User("Error loading todo list. Exiting.", 0)>>]
                  /\ proc' = Exited(1)
                  /\ disk' = SaveToFile(NewTodoList, disk, "ok").disk
                  /\ UNCHANGED <<todoList, saver>>
             ELSE /\ out' = [c EXCEPT !.called = TRUE, !.loaded = r.tl,
                                !.msgs = r.msgs]
                  /\ proc' = Running
                  /\ todoList' = r.tl[1]
                  /\ saver' = Sleeping
                  /\ UNCHANGED disk

Startup ==
    \E configOK \in BOOLEAN :
      LET c == Command("load")
          r == LoadFromFile(disk)
      IN  /\ proc.pc = "start"
          /\ UNCHANGED <<lastActionState, clock, scen, disk, fg, seen>>
          /\ IF ~configOK
             THEN /\ out' = [c EXCEPT !.msgs =
                                <<Log("ERROR: Failed to load configuration", 0)>>]
                  /\ proc' = Exited(1)
                  /\ UNCHANGED <<todoList, saver>>
             ELSE IF r.err
             THEN /\ out' = [c EXCEPT !.called = TRUE, !.err = TRUE,
                                !.loaded = r.tl,
                                !.msgs = r.msgs \o
                                  <<Log("ERROR: Failed to load todo list", 0),
                                    User("Error loading todo list. Exiting.", 0)>>]
                  /\ proc' = Exited(1)
                  /\ UNCHANGED <<todoList, saver>>
             ELSE /\ out' = [c EXCEPT !.called = TRUE, !.loaded = r.tl,
                                !.msgs = r.msgs]
                  /\ proc' = Running
                  /\ todoList' = r.tl[1]
                  /\ saver' = Sleeping

\* The flag values HandleCommands defines, at their defaults; NFlag counts
\* the flags the command line set and err is a command line flag.Parse
\* rejects.
DefaultFlags ==
    [add |-> <<>>, complete |-> 0, delete |-> 0, list |-> FALSE,
     interactive |-> FALSE, clearCompleted |-> FALSE,
     filterStatus |-> "all", filterPriority |-> <<>>, filterTags |-> <<>>,
     sortBy |-> "id", sortOrder |-> "asc", NFlag |-> 0, err |-> FALSE]

\* One argument of the command line: the flag's name, and its value as a
\* text (value) or as one of the words a status or sort flag takes (word).
Arg(name, value, word) == [name |-> name, value |-> value, word |-> word]

\* flag.Parse on one argument: a name HandleCommands has not defined, and
\* an -complete or -delete value that is no number, are errors.
SetFlag(f, a) ==
    LET n == Atoi(a.value)
        g == [f EXCEPT !.NFlag = @ + 1]
    IN  CASE a.name = "add" -> [g EXCEPT !.add = a.value]
          [] a.name = "complete" ->
                IF n.err THEN [f EXCEPT !.err = TRUE] ELSE [g EXCEPT !.complete = n.n]
          [] a.name = "delete" ->
                IF n.err THEN [f EXCEPT !.err = TRUE] ELSE [g EXCEPT !.delete = n.n]
          [] a.name = "list" -> [g EXCEPT !.list = TRUE]
          [] a.name = "interactive" -> [g EXCEPT !.interactive = TRUE]
          [] a.name = "clear-completed" -> [g EXCEPT !.clearCompleted = TRUE]
          [] a.name = "filter-status" -> [g EXCEPT !.filterStatus = a.word]
          [] a.name = "filter-priority" -> [g EXCEPT !.filterPriority = a.value]
          [] a.name = "filter-tags" -> [g EXCEPT !.filterTags = a.value]
          [] a.name = "sort-by" -> [g EXCEPT !.sortBy = a.word]
          [] a.name = "sort-order" -> [g EXCEPT !.sortOrder = a.word]
          [] OTHER -> [f EXCEPT !.err = TRUE]

RECURSIVE ParseFrom(_, _, _)
ParseFrom(args, k, f) ==
    IF k > Len(args) \/ f.err
    THEN f
    ELSE ParseFrom(args, k + 1, SetFlag(f, args[k]))

\* flag.Parse: the arguments in order, up to the first it rejects.
Parse(args) == ParseFrom(args, 1, DefaultFlags)

\* strings.Split(s, ",").
RECURSIVE Split(_)
Split(s) ==
    IF \E i \in 1..Len(s) : s[i] = ","
    THEN LET i == CHOOSE i \in 1..Len(s) :
                     s[i] = "," /\ \A j \in 1..(i - 1) : s[j] # ","
         IN  <<SubSeq(s, 1, i - 1)>> \o Split(SubSeq(s, i + 1, Len(s)))
    ELSE <<s>>

\* The ListOptions the -list command builds from the flags.
FlagOptions(f) ==
    LET tags == Split(f.filterTags)
    IN  [FilterStatus |-> f.filterStatus,
         FilterPriority |-> f.filterPriority,
         FilterTags |-> IF Len(tags) = 1 /\ tags[1] = <<>> THEN <<>> ELSE tags,
         SortBy |-> f.sortBy,
         SortOrder |-> f.sortOrder]

\* Mutant of processSingleCommand: -clear-completed clears first and asks
\* afterwards.
processSingleCommand_ClearThenAsk(c, tl, f, yes, now) ==
    IF f.NFlag = 0
    THEN [tl |-> tl,
          c |-> [c EXCEPT !.cmd = "usage", !.msgs = <<User("Usage: go run . [options]", 0)>>]]
    ELSE IF f.add # <<>>
    THEN LET r == Add(tl, f.add, toCanonicalPriority(PriorityMedium), <<>>, <<>>, now)
         IN  [tl |-> r.tl,
              c |-> [c EXCEPT !.cmd = "-add", !.task = f.add, !.called = TRUE,
                              !.ret = r.todo, !.msgs = r.msgs]]
    ELSE IF f.complete # 0
    THEN LET r == Complete(tl, f.complete)
         IN  [tl |-> r.tl,
              c |-> [c EXCEPT !.cmd = "-complete", !.id = f.complete,
                              !.called = TRUE, !.err = r.err,
                              !.msgs = IF r.err THEN NotFoundMsgs(f.complete)
                                       ELSE r.msgs]]
    ELSE IF f.delete # 0
    THEN LET r == Delete(tl, f.delete)
         IN  IF ~yes
             THEN [tl |-> tl,
                   c |-> [c EXCEPT !.cmd = "-delete", !.id = f.delete,
                                   !.msgs = <<User("Deletion of todo cancelled.",
                                                   f.delete)>>]]
             ELSE [tl |-> r.tl,
                   c |-> [c EXCEPT !.cmd = "-delete", !.id = f.delete,
                                   !.confirm = TRUE, !.called = TRUE,
                                   !.err = r.err, !.ret = r.todo,
                                   !.msgs = IF r.err THEN NotFoundMsgs(f.delete)
                                            ELSE r.msgs]]
    ELSE IF f.clearCompleted
    THEN LET r == ClearCompleted(tl)
         IN  IF ~yes
             THEN [tl |-> r.tl,
                   c |-> [c EXCEPT !.cmd = "-clear-completed", !.called = TRUE,
                                   !.msgs = r.msgs]]
             ELSE [tl |-> r.tl,
                   c |-> [c EXCEPT !.cmd = "-clear-completed", !.confirm = TRUE,
                                   !.called = TRUE, !.msgs = r.msgs]]
    ELSE IF f.list
    THEN LET listed == List(tl, FlagOptions(f))
         IN  [tl |-> tl,
              c |-> [c EXCEPT !.cmd = "-list", !.options = FlagOptions(f),
                              !.called = TRUE, !.listed = listed,
                              !.msgs = ListMsgs(listed)]]
    ELSE [tl |-> tl,
          c |-> [c EXCEPT !.cmd = "unknown",
                          !.msgs = <<User("Unknown command or invalid flag combination.", 0)>>]]

\* processSingleCommand on the list tl with the parsed flags f, yes being
\* the answer a confirmation prompt gets and now what time.Now() returns:
\* the command record c completed, and the list afterwards.
processSingleCommand(c, tl, f, yes, now) ==
    IF f.NFlag = 0
    THEN [tl |-> tl,
          c |-> [c EXCEPT !.cmd = "usage", !.msgs = <<User("Usage: go run . [options]", 0)>>]]
    ELSE IF f.add # <<>>
    THEN LET r == Add(tl, f.add, toCanonicalPriority(PriorityMedium), <<>>, <<>>, now)
         IN  [tl |-> r.tl,
              c |-> [c EXCEPT !.cmd = "-add", !.task = f.add, !.called = TRUE,
                              !.ret = r.todo, !.msgs = r.msgs]]
    ELSE IF f.complete # 0
    THEN LET r == Complete(tl, f.complete)
         IN  [tl |-> r.tl,
              c |-> [c EXCEPT !.cmd = "-complete", !.id = f.complete,
                              !.called = TRUE, !.err = r.err,
                              !.msgs = IF r.err THEN NotFoundMsgs(f.complete)
                                       ELSE r.msgs]]
    ELSE IF f.delete # 0
    THEN LET r == Delete(tl, f.delete)
         IN  IF ~yes
             THEN [tl |-> tl,
                   c |-> [c EXCEPT !.cmd = "-delete", !.id = f.delete,
                                   !.msgs = <<User("Deletion of todo cancelled.",
                                                   f.delete)>>]]
             ELSE [tl |-> r.tl,
                   c |-> [c EXCEPT !.cmd = "-delete", !.id = f.delete,
                                   !.confirm = TRUE, !.called = TRUE,
                                   !.err = r.err, !.ret = r.todo,
                                   !.msgs = IF r.err THEN NotFoundMsgs(f.delete)
                                            ELSE r.msgs]]
    ELSE IF f.clearCompleted
    THEN LET r == ClearCompleted(tl)
         IN  IF ~yes
             THEN [tl |-> tl,
                   c |-> [c EXCEPT !.cmd = "-clear-completed",
                                   !.msgs = <<User("Clearing completed todos cancelled.", 0)>>]]
             ELSE [tl |-> r.tl,
                   c |-> [c EXCEPT !.cmd = "-clear-completed", !.confirm = TRUE,
                                   !.called = TRUE, !.msgs = r.msgs]]
    ELSE IF f.list
    THEN LET listed == List(tl, FlagOptions(f))
         IN  [tl |-> tl,
              c |-> [c EXCEPT !.cmd = "-list", !.options = FlagOptions(f),
                              !.called = TRUE, !.listed = listed,
                              !.msgs = ListMsgs(listed)]]
    ELSE [tl |-> tl,
          c |-> [c EXCEPT !.cmd = "unknown",
                          !.msgs = <<User("Unknown command or invalid flag combination.", 0)>>]]

\* The command lines the runs are launched with.
CommandLines ==
    { <<>>,
      <<Arg("interactive", <<>>, "")>>,
      <<Arg("add", <<"A">>, "")>>,
      <<Arg("add", <<"A">>, ""), Arg("complete", Itoa(1), "")>>,
      <<Arg("complete", Itoa(1), "")>>,
      <<Arg("complete", Itoa(3), "")>>,
      <<Arg("complete", Itoa(0), "")>>,
      <<Arg("delete", <<"x">>, "")>>,
      <<Arg("delete", Itoa(1), "")>>,
      <<Arg("delete", Itoa(3), "")>>,
      <<Arg("clear-completed", <<>>, "")>>,
      <<Arg("list", <<>>, "")>>,
      <<Arg("list", <<>>, ""), Arg("filter-status", <<>>, "incomplete"),
        Arg("filter-tags", TagWork \o <<",">> \o TagUrgent, "")>>,
      <<Arg("uncomplete", Itoa(1), "")>> }

\* HandleCommands up to the interactive loop, or, for a single command, up
\* to its return: flag.Parse ends the process with status 2 on a command
\* line it rejects; -interactive enters runInteractiveMode; any other
\* command line goes through processSingleCommand.
HandleCommands ==
    \E args \in CommandLines, yes \in BOOLEAN :
      LET f == Parse(args)
          c == [Command("") EXCEPT !.args = args]
          r == processSingleCommand(c, todoList, f, yes, clock + 1)
      IN  /\ proc.pc = "running"
          /\ UNCHANGED <<lastActionState, scen, disk, fg, seen>>
          /\ IF f.err
             THEN /\ out' = [c EXCEPT !.cmd = "flag",
                                !.msgs = <<User("flag.Parse: usage", 0)>>]
                  /\ proc' = Exited(2)
                  /\ saver' = SaverOff
                  /\ UNCHANGED <<todoList, clock>>
             ELSE IF f.interactive
             THEN /\ out' = [c EXCEPT !.cmd = "interactive",
                                !.msgs = <<User("Entering interactive mode.", 0)>>]
                  /\ proc' = Interactive
                  /\ UNCHANGED <<todoList, clock, saver>>
             ELSE /\ r.c.cmd = "-add" => clock < LaunchTime + MaxStored
                  /\ out' = r.c
                  /\ todoList' = r.tl
                  /\ clock' = IF r.c.cmd = "-add" THEN clock + 1 ELSE clock
                  /\ proc' = Returned
                  /\ UNCHANGED saver

\* The exit command of the interactive session: runInteractiveMode and
\* HandleCommands return.
InteractiveExit ==
    /\ proc.pc = "interactive"
    /\ out' = [Command("return") EXCEPT !.msgs = <<User("Exiting interactive mode.", 0)>>]
    /\ proc' = Returned
    /\ UNCHANGED <<todoList, lastActionState, clock, scen, disk, fg, saver, seen>>

\* The commands of the session this process runs.
StoreCommand ==
    /\ proc.pc = "interactive"
    /\ \/ clock < LaunchTime + MaxStored /\ InteractiveAdd
       \/ InteractiveComplete
       \/ InteractiveClearCompleted

\* main has started the auto-save goroutine and has not ended.
Alive == proc.pc \in {"running", "interactive", "returned"}

\* The timer of the auto-save goroutine fires: <-time.After(interval)
\* returns.
Tick ==
    /\ Alive
    /\ saver.pc = "sleep"
    /\ saver' = [saver EXCEPT !.pc = "fired"]
    /\ UNCHANGED <<todoList, lastActionState, clock, out, scen, disk, proc, fg, seen>>

\* Mutant of AutoSave: the goroutine saves a copy of the list taken when it
\* was started, which is what the file held then.
AutoSave_StartCopy ==
    \E outcome \in WriteOutcomes :
      LET l == LoadFromFile(disk)
          r == SaveToFile(IF l.tl = <<>> THEN NewTodoList ELSE l.tl[1], disk, outcome)
      IN  /\ Alive
          /\ saver.pc = "fired"
          /\ saver' = Sleeping
          /\ disk' = r.disk
          /\ out' = [Command("autosave") EXCEPT !.called = TRUE, !.err = r.err,
                        !.msgs = r.msgs]
          /\ UNCHANGED <<todoList, lastActionState, clock, scen, proc, fg, seen>>

\* Mutant of AutoSave: the goroutine returns after a save that failed.
AutoSave_StopsOnFailure ==
    \E outcome \in WriteOutcomes :
      LET r == SaveToFile(todoList, disk, outcome)
      IN  /\ Alive
          /\ saver.pc = "fired"
          /\ saver' = IF r.err THEN SaverOff ELSE Sleeping
          /\ disk' = r.disk
          /\ out' = [Command("autosave") EXCEPT !.called = TRUE, !.err = r.err,
                        !.msgs = r.msgs]
          /\ UNCHANGED <<todoList, lastActionState, clock, scen, proc, fg, seen>>

\* The rest of that round of the loop: SaveToFile, the log line, and back
\* to the timer.
AutoSave ==
    \E outcome \in WriteOutcomes :
      LET r == SaveToFile(todoList, disk, outcome)
      IN  /\ Alive
          /\ saver.pc = "fired"
          /\ saver' = Sleeping
          /\ disk' = r.disk
          /\ out' = [Command("autosave") EXCEPT !.called = TRUE, !.err = r.err,
                        !.msgs = r.msgs \o
                          (IF r.err THEN <<Log("ERROR: Auto-save failed", 0)>>
                           ELSE <<Log("INFO: Auto-saved todo list.", 0)>>)]
          /\ UNCHANGED <<todoList, lastActionState, clock, scen, proc, fg, seen>>

\* Mutant of Exit: a failed save ends the process with status 1.
Exit_FailureStatus ==
    \E outcome \in WriteOutcomes :
      LET r == SaveToFile(todoList, disk, outcome)
      IN  /\ proc.pc = "returned"
          /\ disk' = r.disk
          /\ out' = [Command("exit") EXCEPT !.called = TRUE, !.err = r.err,
                        !.msgs = r.msgs]
          /\ proc' = Exited(IF r.err THEN 1 ELSE 0)
          /\ saver' = SaverOff
          /\ UNCHANGED <<todoList, lastActionState, clock, scen, fg, seen>>

\* HandleCommands has returned: main saves and ends.
Exit ==
    \E outcome \in WriteOutcomes :
      LET r == SaveToFile(todoList, disk, outcome)
      IN  /\ proc.pc = "returned"
          /\ disk' = r.disk
          /\ out' = [Command("exit") EXCEPT !.called = TRUE, !.err = r.err,
                        !.msgs = r.msgs \o
                          (IF r.err
                           THEN <<Log("ERROR: Failed to save todo list on exit", 0)>>
                           ELSE <<>>)]
          /\ proc' = Exited(0)
          /\ saver' = SaverOff
          /\ UNCHANGED <<todoList, lastActionState, clock, scen, fg, seen>>

\* The program is launched again on the same path.
Relaunch ==
    /\ proc.pc = "exited"
    /\ proc' = Launched
    /\ todoList' = NewTodoList
    /\ lastActionState' = NoAction
    /\ out' = NoCommand
    /\ scen' = 0
    /\ UNCHANGED <<clock, disk, fg, saver, seen>>

StoreNext ==
    \/ Startup
    \/ HandleCommands
    \/ StoreCommand
    \/ InteractiveExit
    \/ Tick
    \/ AutoSave
    \/ Exit
    \/ Relaunch

SpecStore == StoreInit /\ [][StoreNext]_vars

\* The runs that begin with no data file, where a timer that was started
\* fires and the goroutine, once its timer has fired, gets to run.
LiveInit == StoreInit /\ disk = NoFile

SpecStoreLive ==
    LiveInit /\ [][StoreNext]_vars /\ WF_vars(Tick) /\ WF_vars(AutoSave)

(***************************************************************************)
(* The command surface on a list main has loaded: HandleCommands with a    *)
(* command line, and for -interactive the destructive commands of the      *)
(* session, each with the answer its confirmation prompt gets.             *)
(***************************************************************************)
\* The lists main has loaded: those of at most two todos.
SurfaceLists == {tl \in QueryLists : Len(tl.Todos) < MaxTodos}

SurfaceInit ==
    /\ todoList \in SurfaceLists
    /\ lastActionState = NoAction
    /\ clock = LaunchTime
    /\ out = NoCommand
    /\ scen = 0
    /\ disk = NoFile
    /\ proc = Running
    /\ fg = Idle
    /\ saver = Sleeping
    /\ seen = {}

\* The commands of the interactive session that ask before they act, and
\* undo.
SurfaceCommand ==
    /\ proc.pc = "interactive"
    /\ \/ InteractiveDelete
       \/ InteractiveClearCompleted
       \/ InteractiveUndo

SurfaceNext ==
    \/ HandleCommands
    \/ SurfaceCommand
    \/ InteractiveExit

SpecSurface == SurfaceInit /\ [][SurfaceNext]_vars

(***************************************************************************)
(* The foreground and the auto-save goroutine on the one *TodoList they    *)
(* share, with no lock: a TodoList method is the sequence of its writes    *)
(* to the list, json.MarshalIndent is the sequence of its reads of it,     *)
(* and the two interleave in any order.  The encoder walks the struct      *)
(* through reflection: it reads the length of Todos once, then for each    *)
(* index reads the slice header again, checks the index against the        *)
(* length it finds there (a failed check panics, encoding/json passes the  *)
(* panic on and the process dies with status 2), encodes the element, and  *)
(* reads NextID last.                                                      *)
(***************************************************************************)
\* The session adds at most MaxRace todos.
MaxRace == 2

IsIdle == fg.op = ""

\* The save in progress has read the length and not yet written.
Reading == saver.pc \in {"elems", "write"}

\* The foreground method returned leaving tl: one more value the list had
\* while the save in progress was reading.
Note(tl) == IF Reading THEN seen \cup {tl} ELSE seen

RaceInit ==
    /\ todoList = NewTodoList
    /\ lastActionState = NoAction
    /\ clock = 0
    /\ out = NoCommand
    /\ scen = 0
    /\ disk = NoFile
    /\ proc = Interactive
    /\ fg = Idle
    /\ saver = Sleeping
    /\ seen = {}

\* Add up to and including tl.Todos = append(tl.Todos, todo).
AddAppend ==
    LET in == GoodAdd(todoList.NextID)
        parsed == parseDueDate(in.dueDateStr)
        dueDate == IF in.dueDateStr # <<>> THEN <<parsed.t>> ELSE <<>>
        r == Add(todoList, in.task, toCanonicalPriority(in.priority), dueDate,
                 in.tags, clock + 1)
    IN  /\ Alive
        /\ IsIdle
        /\ todoList.NextID <= MaxRace
        /\ clock' = clock + 1
        /\ todoList' = [todoList EXCEPT !.Todos = Append(@, r.todo)]
        /\ fg' = [op |-> "Add", k |-> 0, pre |-> todoList, post |-> r.tl]
        /\ UNCHANGED <<lastActionState, out, scen, disk, proc, saver, seen>>

\* tl.NextID++, and Add returns.
AddIncrement ==
    /\ Alive
    /\ fg.op = "Add"
    /\ todoList' = [todoList EXCEPT !.NextID = @ + 1]
    /\ fg' = Idle
    /\ seen' = Note(todoList')
    /\ UNCHANGED <<lastActionState, clock, out, scen, disk, proc, saver>>

\* Delete up to the match of its loop at index k.
DeleteBegin ==
    \E id \in 1..todoList.NextID :
      LET i == IndexOfID(todoList.Todos, id)
      IN  /\ Alive
          /\ IsIdle
          /\ i # 0
          /\ fg' = [op |-> "Delete", k |-> i, pre |-> todoList,
                    post |-> Delete(todoList, id).tl]
          /\ UNCHANGED <<todoList, lastActionState, clock, out, scen, disk,
                         proc, saver, seen>>

\* append(tl.Todos[:i], tl.Todos[i+1:]...) moves the elements behind the
\* match down by one place inside the array the list uses, one at a time.
DeleteShift ==
    /\ Alive
    /\ fg.op = "Delete"
    /\ fg.k < Len(todoList.Todos)
    /\ todoList' = [todoList EXCEPT !.Todos[fg.k] = todoList.Todos[fg.k + 1]]
    /\ fg' = [fg EXCEPT !.k = @ + 1]
    /\ UNCHANGED <<lastActionState, clock, out, scen, disk, proc, saver, seen>>

\* tl.Todos = the slice append returned, one element shorter, and Delete
\* returns.
DeleteStore ==
    /\ Alive
    /\ fg.op = "Delete"
    /\ fg.k = Len(todoList.Todos)
    /\ todoList' = [todoList EXCEPT !.Todos = SubSeq(@, 1, Len(@) - 1)]
    /\ fg' = Idle
    /\ seen' = Note(todoList')
    /\ UNCHANGED <<lastActionState, clock, out, scen, disk, proc, saver>>

\* Complete of a todo the list holds: the one write tl.Todos[i].Completed =
\* true.
CompleteStore ==
    \E id \in 1..todoList.NextID :
      /\ Alive
      /\ IsIdle
      /\ IndexOfID(todoList.Todos, id) # 0
      /\ todoList' = Complete(todoList, id).tl
      /\ seen' = Note(todoList')
      /\ UNCHANGED <<lastActionState, clock, out, scen, disk, proc, fg, saver>>

\* ClearCompleted: the list is read into a new slice, and the one write
\* tl.Todos = activeTodos happens where a todo was removed.
ClearCompletedStore ==
    /\ Alive
    /\ IsIdle
    /\ todoList' = ClearCompleted(todoList).tl
    /\ seen' = Note(todoList')
    /\ UNCHANGED <<lastActionState, clock, out, scen, disk, proc, fg, saver>>

\* SaveToFile begins: the encoder reads the length of tl.Todos.
SaverLen ==
    /\ Alive
    /\ saver.pc = "fired"
    /\ saver' = [pc |-> "elems", n |-> Len(todoList.Todos), got |-> <<>>,
                 NextID |-> 0]
    /\ seen' = {IF IsIdle THEN todoList ELSE fg.pre}
    /\ UNCHANGED <<todoList, lastActionState, clock, out, scen, disk, proc, fg>>

\* The encoder takes the next element: v.Index(i) on the slice header as it
\* is now.
SaverIndex ==
    LET i == Len(saver.got) + 1
    IN  /\ Alive
        /\ saver.pc = "elems"
        /\ i <= saver.n
        /\ IF i > Len(todoList.Todos)
           THEN /\ proc' = Exited(2)
                /\ saver' = SaverOff
           ELSE /\ saver' = [saver EXCEPT !.got = Append(@, todoList.Todos[i])]
                /\ UNCHANGED proc
        /\ UNCHANGED <<todoList, lastActionState, clock, out, scen, disk, fg, seen>>

\* The encoder reads tl.NextID, the second field, and the document is
\* complete.
SaverNextID ==
    /\ Alive
    /\ saver.pc = "elems"
    /\ Len(saver.got) = saver.n
    /\ saver' = [saver EXCEPT !.pc = "write", !.NextID = todoList.NextID]
    /\ seen' = IF IsIdle THEN seen ELSE seen \cup {fg.post}
    /\ UNCHANGED <<todoList, lastActionState, clock, out, scen, disk, proc, fg>>

\* What the encoder has read.
Snapshot == [Todos |-> saver.got, NextID |-> saver.NextID]

\* os.WriteFile of the document, the log line, and back to the timer.
SaverWrite ==
    \E outcome \in WriteOutcomes :
      LET w == WriteFile(disk, MarshalIndent(Snapshot), outcome)
      IN  /\ Alive
          /\ saver.pc = "write"
          /\ disk' = w.disk
          /\ saver' = Sleeping
          /\ seen' = {}
          /\ UNCHANGED <<todoList, lastActionState, clock, out, scen, proc, fg>>

\* The exit command: the loop of runInteractiveMode ends and HandleCommands
\* returns to main, which calls no method of the list but SaveToFile.
RaceReturn ==
    /\ proc.pc = "interactive"
    /\ IsIdle
    /\ proc' = Returned
    /\ fg' = [op |-> "main", k |-> 0, pre |-> todoList, post |-> todoList]
    /\ UNCHANGED <<todoList, lastActionState, clock, out, scen, disk, saver, seen>>

\* main's SaveToFile, up to the return of os.WriteFile; k is 1 where it
\* returned an error.
FinalSave ==
    \E outcome \in WriteOutcomes :
      LET r == SaveToFile(todoList, disk, outcome)
      IN  /\ proc.pc = "returned"
          /\ fg.op = "main"
          /\ disk' = r.disk
          /\ fg' = [fg EXCEPT !.op = "saved", !.k = IF r.err THEN 1 ELSE 0]
          /\ UNCHANGED <<todoList, lastActionState, clock, out, scen, proc, saver, seen>>

\* main returns: the process ends with status 0, and the goroutine of
\* StartAutoSave with it, wherever it is.
MainReturn ==
    /\ proc.pc = "returned"
    /\ fg.op = "saved"
    /\ proc' = Exited(0)
    /\ saver' = SaverOff
    /\ UNCHANGED <<todoList, lastActionState, clock, out, scen, disk, fg, seen>>

RaceNext ==
    \/ AddAppend
    \/ AddIncrement
    \/ DeleteBegin
    \/ DeleteShift
    \/ DeleteStore
    \/ CompleteStore
    \/ ClearCompletedStore
    \/ Tick
    \/ SaverLen
    \/ SaverIndex
    \/ SaverNextID
    \/ SaverWrite
    \/ RaceReturn
    \/ FinalSave
    \/ MainReturn

SpecRace == RaceInit /\ [][RaceNext]_vars

(***************************************************************************)
(* Properties.                                                             *)
(***************************************************************************)
IDsOf(todos) == {todos[i].ID : i \in 1..Len(todos)}
HasID(todos, id) == \E i \in 1..Len(todos) : todos[i].ID = id

\* The last command was cmd and reached its TodoList call (or, for undo and
\* list, ran).
Ran(cmd) == out.cmd = cmd /\ out.called
Succeeded(cmd) == Ran(cmd) /\ ~out.err

\* C1: after any sequence of commands of the session, started on the empty
\* list with counter 1, the identifiers of the records are pairwise
\* different and every one is at least 1 and below the counter NextID.
C1_UniqueIDsBelowCounter ==
    /\ \A i, j \in 1..Len(todoList.Todos) :
          i # j => todoList.Todos[i].ID # todoList.Todos[j].ID
    /\ \A i \in 1..Len(todoList.Todos) :
          /\ todoList.Todos[i].ID >= 1
          /\ todoList.Todos[i].ID < todoList.NextID

\* C1 witness: a deleted record was put back by undo behind a newer one.
C1_Witness ==
    /\ Succeeded("undo")
    /\ out.preAction.Type = "ActionDelete"
    /\ Len(todoList.Todos) >= 2
    /\ todoList.Todos[Len(todoList.Todos)].ID < todoList.Todos[1].ID

\* C2: an Add gives the new record the counter's value as identifier, puts
\* it last and raises the counter by exactly 1, so the identifier is above
\* every identifier handed out before; every other command, undo of an add
\* and undo of a delete included, leaves the counter as it was.
C2_CounterOnlyAddByOne ==
    IF Ran("add")
    THEN /\ todoList.NextID = out.pre.NextID + 1
         /\ Len(todoList.Todos) = Len(out.pre.Todos) + 1
         /\ todoList.Todos[Len(todoList.Todos)].ID = out.pre.NextID
         /\ out.ret.ID = out.pre.NextID
         /\ \A i \in 1..Len(out.pre.Todos) : out.pre.Todos[i].ID < out.ret.ID
         /\ out.preAction.DeletedTodo # <<>> =>
                out.preAction.DeletedTodo[1].ID < out.ret.ID
    ELSE todoList.NextID = out.pre.NextID

\* C2 witness: an Add after a record was removed; the new identifier is not
\* the removed one.
C2_Witness ==
    /\ Ran("add")
    /\ out.ret.ID >= 2
    /\ \E n \in 1..(out.ret.ID - 1) : ~HasID(todoList.Todos, n)

\* C3: an undo issued directly after a successful Add succeeds and removes
\* exactly the record that Add created, the one whose identifier is the
\* counter minus 1; the other records, their order and the counter are as
\* they were.
C3_UndoAfterAdd ==
    [][ (Ran("add") /\ out'.cmd = "undo") =>
            /\ ~out'.err
            /\ out.ret.ID = todoList.NextID - 1
            /\ ~HasID(todoList'.Todos, out.ret.ID)
            /\ Len(todoList'.Todos) = Len(todoList.Todos) - 1
            /\ \A i \in 1..Len(todoList'.Todos) :
                  todoList'.Todos[i] = todoList.Todos[i]
            /\ todoList'.Todos = out.pre.Todos
            /\ todoList'.NextID = todoList.NextID ]_vars

\* C3 witness: an add was undone while other records were in the list.
C3_Witness ==
    /\ Succeeded("undo")
    /\ out.preAction.Type = "ActionAdd"
    /\ out.preAction.ID = out.pre.NextID - 1
    /\ Len(todoList.Todos) >= 1
    /\ Len(todoList.Todos) = Len(out.pre.Todos) - 1

C5_UndoClearsTracker ==
    [][ /\ out'.cmd = "undo" => lastActionState' = NoAction
        /\ (out.cmd = "undo" /\ out'.cmd = "undo") =>
              /\ todoList' = todoList
              /\ ~out'.err
              /\ out'.msgs = <<User("No action to undo.", 0)>> ]_vars

\* C5 witness: an undo that failed (the record it had to change is gone),
\* and the undo record is empty after it.
C5_Witness ==
    /\ Ran("undo")
    /\ out.err
    /\ out.preAction.Type # "ActionNone"
    /\ lastActionState = NoAction

\* The second record of the scenario, as Add creates it.
ScenarioShipRelease(t) ==
    /\ t.ID = 2
    /\ t.Task = ShipRelease
    /\ ~t.Completed
    /\ t.Priority = PriorityHigh
    /\ t.DueDate = <<DayNumber(2024, 12, 25)>>
    /\ t.Tags = <<TagWork, TagUrgent>>

\* What ClearCompleted does in the scenario: record 1 is removed, record 2
\* stays, and 1 removed record is reported.
ScenarioCleared ==
    /\ Len(todoList.Todos) = 1
    /\ ScenarioShipRelease(todoList.Todos[1])
    /\ Len(out.pre.Todos) = 2
    /\ out.pre.Todos[1].ID = 1
    /\ out.pre.Todos[1].Completed
    /\ out.msgs = <<User("Cleared completed todos", 1)>>

\* C6 as the specification states it: in the scenario ClearCompleted removes
\* record 1 and reports 1 removed, and the undo that follows reports that
\* there is nothing to undo and changes nothing.
C6_Original ==
    /\ scen = 5 => ScenarioCleared
    /\ scen = 6 =>
          /\ out.msgs = <<User("No action to undo.", 0)>>
          /\ todoList = out.pre

\* C6 amended: in the scenario ClearCompleted removes record 1 and reports 1
\* removed; the undo that follows finds Complete(1) recorded, tries
\* Uncomplete(1), which fails because record 1 is gone, reports that the
\* undo failed, changes nothing in the list and empties the undo record.
C6_ScenarioUndoFails ==
    /\ scen = 5 =>
          /\ ScenarioCleared
          /\ lastActionState = [NoAction EXCEPT !.Type = "ActionComplete", !.ID = 1]
    /\ scen = 6 =>
          /\ out.err
          /\ out.msgs = <<Log("ERROR: Failed to undo complete", 1),
                          User("Undo failed: ", 1)>>
          /\ todoList = out.pre
          /\ lastActionState = NoAction

\* C6 witness: the scenario was performed to its last step.
C6_Witness == scen = 6 /\ out.cmd = "undo"

\* C7: an undo with no action recorded leaves the records and the counter
\* as they were, is no error, and reports that there is no action to undo.
C7_UndoNothing ==
    (Ran("undo") /\ out.preAction.Type = "ActionNone") =>
        /\ todoList = out.pre
        /\ ~out.err
        /\ out.msgs = <<User("No action to undo.", 0)>>
        /\ lastActionState = NoAction

\* C7 witness: an undo with nothing recorded, on a list that has records.
C7_Witness ==
    /\ Ran("undo")
    /\ out.preAction = NoAction
    /\ Len(todoList.Todos) >= 1

\* C8: a successful Delete(id) removes one record, the one with identifier
\* id, and returns a copy of it; the records before it keep their place,
\* the records after it move up by one, unchanged and in the same order;
\* the counter is unchanged.
C8_DeleteRemovesOne ==
    Succeeded("delete") =>
        \E i \in 1..Len(out.pre.Todos) :
            /\ out.pre.Todos[i].ID = out.id
            /\ out.ret = out.pre.Todos[i]
            /\ Len(todoList.Todos) = Len(out.pre.Todos) - 1
            /\ \A k \in 1..(i - 1) : todoList.Todos[k] = out.pre.Todos[k]
            /\ \A k \in i..Len(todoList.Todos) : todoList.Todos[k] = out.pre.Todos[k + 1]
            /\ todoList.NextID = out.pre.NextID

\* C8 witness: the first of three records was deleted, so the two records
\* behind it moved up.
C8_Witness ==
    /\ Succeeded("delete")
    /\ Len(out.pre.Todos) = 3
    /\ out.pre.Todos[1].ID = out.id

\* C9: Complete, Uncomplete, Delete and EditTask called with an identifier
\* that no record has return the not-found error, which the session prints,
\* and leave the records and the counter exactly as they were.
C9_NotFoundChangesNothing ==
    ( /\ out.cmd \in {"complete", "uncomplete", "delete", "edit"}
      /\ out.called
      /\ ~HasID(out.pre.Todos, out.id) ) =>
        /\ out.err
        /\ todoList = out.pre
        /\ out.msgs[Len(out.msgs)] = User("todo with ID not found", out.id)

\* C9 witness: an edit of an identifier that was deleted before.
C9_Witness ==
    /\ Ran("edit")
    /\ out.err
    /\ out.id < out.pre.NextID
    /\ Len(out.pre.Todos) >= 1

\* The list tl with the completion flag of the record with identifier id
\* set to flag, and nothing else changed.
WithFlag(tl, id, flag) ==
    [tl EXCEPT !.Todos =
        [i \in 1..Len(tl.Todos) |->
            IF tl.Todos[i].ID = id
            THEN [tl.Todos[i] EXCEPT !.Completed = flag]
            ELSE tl.Todos[i]]]

\* C10: for a record id of the list, Complete(id) directly followed by
\* Uncomplete(id) leaves the list as it was before the two calls except that
\* record id is incomplete, and Uncomplete(id) directly followed by
\* Complete(id) leaves it as it was except that record id is complete.
C10_CompleteUncomplete ==
    [][ /\ ( /\ Succeeded("complete")
             /\ out'.cmd = "uncomplete" /\ out'.called /\ out'.id = out.id ) =>
                /\ ~out'.err
                /\ todoList' = WithFlag(out.pre, out.id, FALSE)
        /\ ( /\ Succeeded("uncomplete")
             /\ out'.cmd = "complete" /\ out'.called /\ out'.id = out.id ) =>
                /\ ~out'.err
                /\ todoList' = WithFlag(out.pre, out.id, TRUE) ]_vars

\* C10 witness: Uncomplete(id) succeeded with Complete(id) as the action
\* recorded before it, on a list where id is not at position id.
C10_Witness ==
    /\ Succeeded("uncomplete")
    /\ out.preAction = [NoAction EXCEPT !.Type = "ActionComplete", !.ID = out.id]
    /\ Len(todoList.Todos) >= 2
    /\ todoList.Todos[1].ID # 1

\* C11: Complete on a todo that is already completed, and Uncomplete on a
\* todo that is already incomplete, return no error and leave the list as
\* it was, so that a second application adds nothing to the first.
C11_RepeatChangesNothing ==
    LET i == IndexOfID(out.pre.Todos, out.id)
    IN  /\ (Ran("complete") /\ i # 0 /\ out.pre.Todos[i].Completed)
              => (~out.err /\ todoList = out.pre)
        /\ (Ran("uncomplete") /\ i # 0 /\ ~out.pre.Todos[i].Completed)
              => (~out.err /\ todoList = out.pre)

\* Complete has just run on a completed todo that has neighbours.
C11_Witness ==
    /\ Succeeded("complete")
    /\ Len(out.pre.Todos) >= 2
    /\ LET i == IndexOfID(out.pre.Todos, out.id)
       IN  i # 0 /\ out.pre.Todos[i].Completed
    /\ todoList = out.pre

\* C12: ClearCompleted drops exactly the completed todos, keeps the others
\* in their order, reports how many it dropped, changes nothing and is no
\* error when none is completed, and never changes the counter.
C12_ClearCompleted ==
    Ran("clear-completed") =>
        LET done == {i \in 1..Len(out.pre.Todos) : out.pre.Todos[i].Completed}
        IN  /\ ~out.err
            /\ todoList.NextID = out.pre.NextID
            /\ todoList.Todos = SelectSeq(out.pre.Todos, LAMBDA t : ~t.Completed)
            /\ IF done = {}
               THEN /\ todoList = out.pre
                    /\ out.msgs = <<User("No completed todos to clear.", 0)>>
               ELSE out.msgs = <<User("Cleared completed todos", Cardinality(done))>>

\* ClearCompleted has just dropped two completed todos that had an
\* incomplete one between or beside them.
C12_Witness ==
    /\ Ran("clear-completed")
    /\ Len(out.pre.Todos) = 3
    /\ Len(todoList.Todos) = 1
    /\ out.msgs = <<User("Cleared completed todos", 2)>>

\* Two texts are equal ignoring the case of their letters.
EqualFold(a, b) ==
    /\ Len(a) = Len(b)
    /\ \A i \in 1..Len(a) : ToLowerChar(a[i]) = ToLowerChar(b[i])

Levels == {PriorityHigh, PriorityMedium, PriorityLow}

Warned(msgs) ==
    \E k \in 1..Len(msgs) : msgs[k] = Log("WARNING: Invalid priority level", 0)

\* C13: Add never fails and the todo it appends has one of the priorities
\* high, medium, low: a priority equal to a level ignoring case is stored
\* as that level in lowercase with no warning, any other text (the empty
\* one included) is stored as medium with a warning; and every todo of the
\* list has one of the three levels.
C13_AddCanonicalPriority ==
    /\ \A i \in 1..Len(todoList.Todos) : todoList.Todos[i].Priority \in Levels
    /\ (Ran("add") \/ Ran("Add")) =>
          LET created == todoList.Todos[Len(todoList.Todos)]
              named == {level \in Levels : EqualFold(out.priority, level)}
          IN  /\ ~out.err
              /\ Len(todoList.Todos) = Len(out.pre.Todos) + 1
              /\ created = out.ret
              /\ created.Priority \in Levels
              /\ \A level \in named :
                    created.Priority = level /\ ~Warned(out.msgs)
              /\ named = {} =>
                    created.Priority = PriorityMedium /\ Warned(out.msgs)

\* Add was called with a level spelled in mixed case and stored it in
\* lowercase.
C13_Witness ==
    /\ Ran("Add")
    /\ out.priority = <<"h","i","G","h">>
    /\ out.ret.Priority = PriorityHigh
    /\ Len(out.pre.Todos) >= 1

\* The text s has the text q as a run of consecutive characters, letters
\* compared ignoring case.
HasFold(s, q) ==
    \E k \in 0..(Len(s) - Len(q)) :
        \A i \in 1..Len(q) : ToLowerChar(s[k + i]) = ToLowerChar(q[i])

ElemsOf(todos) == {todos[i] : i \in 1..Len(todos)}

\* C14: SearchTasks returns the todos whose task, or one of whose tags,
\* contains the query ignoring case, and no other todo; the empty query
\* returns every todo of the list.
C14_SearchExactlyMatches ==
    Ran("search") =>
        /\ ElemsOf(out.listed) =
              { t \in ElemsOf(out.pre.Todos) :
                  \/ HasFold(t.Task, out.task)
                  \/ \E k \in 1..Len(t.Tags) : HasFold(t.Tags[k], out.task) }
        /\ out.task = <<>> => ElemsOf(out.listed) = ElemsOf(out.pre.Todos)

\* A search for "work" has found a todo by its tag "WORK" alone and has
\* left out a todo that has neither the word nor a tag.
C14_Witness ==
    /\ Ran("search")
    /\ out.task = TagWork
    /\ \E i \in 1..Len(out.listed) :
          /\ out.listed[i].Tags = <<TagWORK>>
          /\ ~HasFold(out.listed[i].Task, TagWork)
    /\ \E i \in 1..Len(out.pre.Todos) :
          out.pre.Todos[i] \notin ElemsOf(out.listed)

\* The priority filter is the empty text or names a level in some spelling.
KnownPriorityFilter(options) ==
    \/ options.FilterPriority = <<>>
    \/ \E level \in Levels : EqualFold(options.FilterPriority, level)

\* The todo passes the status, the priority and the tag filter of options.
PassesFilters(todo, options) ==
    /\ options.FilterStatus = "completed" => todo.Completed
    /\ options.FilterStatus = "incomplete" => ~todo.Completed
    /\ \/ options.FilterPriority = <<>>
       \/ \E level \in Levels :
            EqualFold(options.FilterPriority, level) /\ todo.Priority = level
    /\ \/ options.FilterTags = <<>>
       \/ \E f \in 1..Len(options.FilterTags), t \in 1..Len(todo.Tags) :
            EqualFold(options.FilterTags[f], todo.Tags[t])

\* C15: List retains a todo exactly when it passes the status filter, the
\* priority filter and the tag filter together; an empty priority filter
\* and an empty tag filter let every todo pass.  (The priority filter is
\* empty or names a level; C39 is about any other text.)
C15_ListFilters ==
    (Ran("list") /\ KnownPriorityFilter(out.options)) =>
        \A i \in 1..Len(out.pre.Todos) :
            (out.pre.Todos[i] \in ElemsOf(out.listed))
                <=> PassesFilters(out.pre.Todos[i], out.options)

\* A list with the three filters set has kept one todo of three.
C15_Witness ==
    /\ Ran("list")
    /\ out.options.FilterStatus = "incomplete"
    /\ out.options.FilterPriority = <<"H","i","g","h">>
    /\ out.options.FilterTags # <<>>
    /\ Len(out.pre.Todos) = 3
    /\ Len(out.listed) = 1

\* C16: a List sorted by due date prints every todo that has a due date
\* before every todo that has none, in both directions; the todos with a
\* due date are printed earliest first when ascending, latest first when
\* descending.
C16_DueDateOrder ==
    (Ran("list") /\ out.options.SortBy = "due_date") =>
        \A i, j \in 1..Len(out.listed) :
            i < j =>
                LET a == out.listed[i]
                    b == out.listed[j]
                IN  /\ ~(a.DueDate = <<>> /\ b.DueDate # <<>>)
                    /\ (a.DueDate # <<>> /\ b.DueDate # <<>>) =>
                          IF out.options.SortOrder = "desc"
                          THEN a.DueDate[1] >= b.DueDate[1]
                          ELSE a.DueDate[1] <= b.DueDate[1]

\* A descending due-date List of a list that starts with an undated todo
\* and has two different due dates, the earlier one first.
C16_Witness ==
    /\ Ran("list")
    /\ out.options.SortBy = "due_date"
    /\ out.options.SortOrder = "desc"
    /\ Len(out.listed) = 3
    /\ out.pre.Todos[1].DueDate = <<>>
    /\ out.pre.Todos[2].DueDate # <<>>
    /\ out.pre.Todos[3].DueDate # <<>>
    /\ out.pre.Todos[2].DueDate[1] < out.pre.Todos[3].DueDate[1]
    /\ out.listed[3] = out.pre.Todos[1]

\* The todos a and b have the same key under the sort key sortBy.
SameKey(a, b, sortBy) ==
    CASE sortBy = "task" -> ToLower(a.Task) = ToLower(b.Task)
      [] sortBy = "created_at" -> a.CreatedAt = b.CreatedAt
      [] sortBy = "due_date" -> a.DueDate = b.DueDate
      [] sortBy = "priority" -> a.Priority = b.Priority
      [] OTHER -> a.ID = b.ID

\* Position of the todo in the list the call started from.
PlaceOf(todo) == CHOOSE i \in 1..Len(out.pre.Todos) : out.pre.Todos[i] = todo

\* C17: List's sort is stable: for every sort key and both directions, two
\* printed todos with equal keys (for due date, also two todos without a
\* due date) are printed in the order they have in the list.
C17_SortStable ==
    (Ran("list") /\ out.options.SortBy # "") =>
        \A i, j \in 1..Len(out.listed) :
            (i < j /\ SameKey(out.listed[i], out.listed[j], out.options.SortBy))
                => PlaceOf(out.listed[i]) < PlaceOf(out.listed[j])

\* Place of a priority in the byte order of the lowercase names.
NameRank(p) == IF p = PriorityHigh THEN 1 ELSE IF p = PriorityLow THEN 2 ELSE 3

\* C18: a List sorted by priority ascending prints the todos in the order
\* of the priority names as texts: every high todo, then every low todo,
\* then every medium todo.
C18_PriorityLexicographic ==
    (Ran("list") /\ out.options.SortBy = "priority"
                 /\ out.options.SortOrder = "asc") =>
        \A i, j \in 1..Len(out.listed) :
            i < j => NameRank(out.listed[i].Priority) <= NameRank(out.listed[j].Priority)

\* An ascending priority List of a list holding medium, low, high in that
\* order has printed high, low, medium.
C18_Witness ==
    /\ Ran("list")
    /\ out.options.SortBy = "priority"
    /\ out.options.SortOrder = "asc"
    /\ Len(out.pre.Todos) = 3
    /\ out.pre.Todos[1].Priority = PriorityMedium
    /\ out.pre.Todos[2].Priority = PriorityLow
    /\ out.pre.Todos[3].Priority = PriorityHigh
    /\ out.listed = <<out.pre.Todos[3], out.pre.Todos[2], out.pre.Todos[1]>>

\* A SaveToFile has just returned without error.
Saved == out.cmd \in {"autosave", "exit"} /\ out.called /\ ~out.err

\* C19: after a SaveToFile that succeeded, LoadFromFile of the same path
\* returns, without error, a list with the same counter and the same
\* todos in the same order, equal in every field, and the file holds one
\* document, that of this list, whatever it held before.
C19_SaveLoadRoundTrip ==
    Saved =>
        LET r == LoadFromFile(disk)
        IN  /\ disk.state = "file"
            /\ Len(disk.data) = 1
            /\ ~r.err
            /\ r.tl = <<todoList>>

\* The final save has replaced the one-todo document of an earlier run by
\* a list of two todos: one with escaped texts and a leap-day due date,
\* and one added in this run, with tags and a due date.
C19_Witness ==
    /\ Saved
    /\ out.cmd = "exit"
    /\ Len(todoList.Todos) = 2
    /\ todoList.Todos[1] = SavedTodo
    /\ todoList.Todos[2].Task = ShipRelease
    /\ todoList.Todos[2].DueDate # <<>>
    /\ todoList.Todos[2].CreatedAt > LaunchTime
    /\ disk.data # <<SavedDocument>>

\* C20: LoadFromFile on a path where nothing is returns an empty list
\* with counter 1 and no error; on any other read error, and on content
\* that does not decode, it returns an error and no list, and main then
\* ends the process with status 1.
C20_LoadFailures ==
    Ran("load") =>
        /\ disk.state = "absent" =>
              /\ ~out.err
              /\ out.loaded = <<[Todos |-> <<>>, NextID |-> 1]>>
              /\ todoList = [Todos |-> <<>>, NextID |-> 1]
              /\ proc.pc = "running"
        /\ (disk.state = "dir" \/ (disk.state = "file" /\ Unmarshal(disk.data).err)) =>
              /\ out.err
              /\ out.loaded = <<>>
              /\ proc.pc = "exited"
              /\ proc.status # 0

\* main has just ended with status 1 because the data path is a directory.
C20_Witness ==
    /\ Ran("load")
    /\ disk.state = "dir"
    /\ out.err
    /\ proc = Exited(1)

\* C21: the snapshot a background save writes equals the collection, records
\* and counter, as it was before a foreground mutation in flight during the
\* save began or as it is after that mutation completed: one of the values
\* the list had between two foreground methods while the save was reading.
C21_SnapshotBeforeOrAfter ==
    saver.pc = "write" => Snapshot \in seen

\* C22: once HandleCommands has returned, from the interactive loop or from
\* a single command, the one thing main does is a SaveToFile of the live
\* list to the data file, whatever the auto-save did before; the process
\* then ends with status 0 whether that save succeeded or failed, a failure
\* being logged; and the process ends with status 0 in no other way.
C22_FinalSave ==
    [][/\ (proc.pc = "returned" /\ proc' # proc) =>
            /\ proc' = Exited(0)
            /\ out'.cmd = "exit" /\ out'.called /\ out'.pre = todoList
            /\ todoList' = todoList
            /\ \E outcome \in WriteOutcomes :
                  LET r == SaveToFile(todoList, disk, outcome)
                  IN  /\ disk' = r.disk
                      /\ out'.err = r.err
            /\ out'.err =>
                  \E k \in 1..Len(out'.msgs) :
                      out'.msgs[k] = Log("ERROR: Failed to save todo list on exit", 0)
       /\ (proc.pc # "exited" /\ proc' = Exited(0)) => proc.pc = "returned"
      ]_vars

\* The final save failed after a single command had changed the list, the
\* file still holds what an earlier save wrote, and the process has ended
\* with status 0.
C22_Witness ==
    /\ Ran("exit")
    /\ out.err
    /\ proc = Exited(0)
    /\ disk.state = "file"
    /\ Len(disk.data) = 1
    /\ Unmarshal(disk.data).tl # todoList
    /\ Len(todoList.Todos) > 0

FailedAutoSave ==
    /\ out.cmd = "autosave" /\ out.err
    /\ saver.pc = "sleep"
    /\ Alive

Destructive ==
    out.cmd \in {"delete", "clear-completed", "-delete", "-clear-completed"}

\* C25: a delete or clear-completed command, interactive or single, calls
\* Delete or ClearCompleted only when its confirmation was answered yes;
\* when it was not, the todos, the counter and the undo record are what
\* they were before the command.
C25_ConfirmFirst ==
    Destructive =>
        /\ out.called => out.confirm
        /\ ~out.confirm =>
              /\ todoList = out.pre
              /\ lastActionState = out.preAction

\* A single -clear-completed command was declined on a list that holds a
\* completed todo.
C25_Witness ==
    /\ out.cmd = "-clear-completed"
    /\ ~out.confirm
    /\ \E i \in 1..Len(todoList.Todos) : todoList.Todos[i].Completed
    /\ proc.pc = "returned"

\* The process was launched with -uncomplete 1 on a list that holds todo 1.
UncompleteLine == <<Arg("uncomplete", Itoa(1), "")>>
SingleUncomplete == out.args = UncompleteLine /\ HasID(out.pre.Todos, 1)

\* C26: launched with -uncomplete <id> on a list that holds that todo, the
\* process handles the command and returns to main with the todo marked
\* incomplete and nothing else changed, and the final save, when it
\* succeeds, writes that list to the data file.
C26_SingleUncomplete ==
    /\ [](SingleUncomplete =>
            /\ proc = Returned
            /\ todoList = Uncomplete(out.pre, 1).tl
            /\ ~todoList.Todos[IndexOfID(todoList.Todos, 1)].Completed)
    /\ [][(SingleUncomplete /\ out'.cmd = "exit" /\ ~out'.err) =>
            Unmarshal(disk'.data).tl = Uncomplete(out.pre, 1).tl]_vars

\* The todo with identifier id in the list tl.
TodoOf(tl, id) == tl.Todos[IndexOfID(tl.Todos, id)]

\* C27: after a successful add, complete, uncomplete or delete of the
\* interactive session the undo record is of that command's kind and holds
\* the identifier of the todo just added, completed, uncompleted or
\* deleted, and for a delete a copy of the todo as it was in the list; a
\* copy an earlier delete left is gone, so one action is remembered, the
\* last.
C27_TrackerOverwritten ==
    /\ Succeeded("add") =>
          /\ lastActionState.Type = "ActionAdd"
          /\ lastActionState.ID = out.ret.ID
          /\ lastActionState.ID = out.pre.NextID
          /\ lastActionState.DeletedTodo = <<>>
    /\ Succeeded("complete") =>
          /\ lastActionState.Type = "ActionComplete"
          /\ lastActionState.ID = out.id
          /\ lastActionState.DeletedTodo = <<>>
    /\ Succeeded("uncomplete") =>
          /\ lastActionState.Type = "ActionUncomplete"
          /\ lastActionState.ID = out.id
          /\ lastActionState.DeletedTodo = <<>>
    /\ Succeeded("delete") =>
          /\ lastActionState.Type = "ActionDelete"
          /\ lastActionState.ID = out.id
          /\ lastActionState.DeletedTodo = <<TodoOf(out.pre, out.id)>>

\* A delete has replaced the record of an earlier delete of another todo,
\* and holds the deleted todo with its due date and tags.
C27_Witness ==
    /\ Succeeded("delete")
    /\ out.preAction.Type = "ActionDelete"
    /\ out.preAction.ID # out.id
    /\ lastActionState.DeletedTodo[1].Task = ShipRelease
    /\ lastActionState.DeletedTodo[1].Tags = <<TagWork, TagUrgent>>

\* The list tl with the completion flag of the todo with identifier id set
\* to flag and everything else as it is.
WithCompleted(tl, id, flag) ==
    [tl EXCEPT !.Todos[IndexOfID(tl.Todos, id)].Completed = flag]

\* C28: a successful undo of a complete leaves the todo of the undo record
\* incomplete, a successful undo of an uncomplete leaves it complete, and
\* in both cases every other todo, the order and the counter are what they
\* were before the undo.
C28_UndoFlipsFlag ==
    /\ (Succeeded("undo") /\ out.preAction.Type = "ActionComplete") =>
          /\ HasID(out.pre.Todos, out.preAction.ID)
          /\ todoList = WithCompleted(out.pre, out.preAction.ID, FALSE)
          /\ ~TodoOf(todoList, out.preAction.ID).Completed
    /\ (Succeeded("undo") /\ out.preAction.Type = "ActionUncomplete") =>
          /\ HasID(out.pre.Todos, out.preAction.ID)
          /\ todoList = WithCompleted(out.pre, out.preAction.ID, TRUE)
          /\ TodoOf(todoList, out.preAction.ID).Completed

\* The complete of todo 2 has been undone in a list whose todo 1 is still
\* completed.
C28_Witness ==
    /\ Succeeded("undo")
    /\ out.preAction.Type = "ActionComplete"
    /\ out.preAction.ID = 2
    /\ out.pre.Todos[2].Completed
    /\ ~todoList.Todos[2].Completed
    /\ todoList.Todos[1].Completed

\* The last command was a complete or an uncomplete that succeeded.
FlagCommand == Succeeded("complete") \/ Succeeded("uncomplete")

\* C29: the undo record a successful complete or uncomplete leaves holds
\* the completion flag the todo had before the command, and an undo that
\* follows at once gives back the list the command started from, also when
\* the command found the flag already set as asked.
C29_UndoRestoresFlag ==
    /\ [](FlagCommand =>
            lastActionState.PreviousCompletedStatus
                = TodoOf(out.pre, out.id).Completed)
    /\ [][(FlagCommand /\ out'.cmd = "undo") => todoList' = out.pre]_vars

\* The last command was an edit, a search or a list.
ReadOrEdit == out.cmd \in {"edit", "search", "list"}

\* C30: an edit, a search or a list leaves the undo record as it was; so
\* when the record is that of an add and the commands since were edits,
\* searches and lists, the undo that follows succeeds and takes the added
\* todo, as edited, out of the list, leaving the other todos and the
\* counter.
C30_EditSearchListKeepTracker ==
    [][/\ ReadOrEdit' => lastActionState' = lastActionState
       /\ (/\ lastActionState.Type = "ActionAdd"
           /\ (Succeeded("add") \/ ReadOrEdit)
           /\ out'.cmd = "undo") =>
              /\ ~out'.err
              /\ HasID(todoList.Todos, lastActionState.ID)
              /\ ~HasID(todoList'.Todos, lastActionState.ID)
              /\ todoList'.Todos =
                    RemoveAt(todoList.Todos,
                             IndexOfID(todoList.Todos, lastActionState.ID))
              /\ todoList'.NextID = todoList.NextID
      ]_vars

\* The first todo was added and then edited, and the undo has removed it
\* with its new text.
C30_Witness ==
    /\ Succeeded("undo")
    /\ out.preAction.Type = "ActionAdd"
    /\ out.preAction.ID = 1
    /\ TodoOf(out.pre, 1).Task = <<"B">>
    /\ ~HasID(todoList.Todos, 1)

(***************************************************************************)
(* C31: a successful EditTask(id, newText) replaces only the description  *)
(* of record id with newText, the empty text included: the record's       *)
(* identifier, completion flag, creation time, priority, due date, tags   *)
(* and position, every other record and the counter are unchanged.        *)
(***************************************************************************)
C31_EditOnlyDescription ==
    Succeeded("EditTask") =>
      /\ todoList.NextID = out.pre.NextID
      /\ Len(todoList.Todos) = Len(out.pre.Todos)
      /\ \A i \in 1..Len(out.pre.Todos) :
           LET old == out.pre.Todos[i]
               new == todoList.Todos[i]
           IN  IF old.ID = out.id
               THEN /\ new.Task = out.task
                    /\ new.ID = old.ID
                    /\ new.Completed = old.Completed
                    /\ new.CreatedAt = old.CreatedAt
                    /\ new.Priority = old.Priority
                    /\ new.DueDate = old.DueDate
                    /\ new.Tags = old.Tags
               ELSE new = old

\* The empty text replaced the description of the second of three todos.
C31_Witness ==
    /\ Succeeded("EditTask")
    /\ out.task = <<>>
    /\ Len(out.pre.Todos) = 3
    /\ out.pre.Todos[2].ID = out.id
    /\ out.pre.Todos[2].Task # <<>>
    /\ todoList.Todos[2].Task = <<>>

(***************************************************************************)
(* C32: SearchTasks and List, with any query and any filter and sort      *)
(* options, leave the records of the list (content and order) and its     *)
(* counter as they were: the sort works on a separate copy.               *)
(***************************************************************************)
C32_QueriesLeaveCollection ==
    (Ran("list") \/ Ran("search")) => todoList = out.pre

\* A descending sort printed all three todos in another order than the
\* list holds them.
C32_Witness ==
    /\ Ran("list")
    /\ out.options.SortOrder = "desc"
    /\ Len(out.listed) = 3
    /\ Len(todoList.Todos) = 3
    /\ out.listed # todoList.Todos

\* The sort key of a comes strictly before the sort key of b: identifiers
\* and creation times as numbers, descriptions in lower case as texts,
\* priorities by the place of their names.
KeyBefore(a, b, sortBy) ==
    CASE sortBy = "id" -> a.ID < b.ID
      [] sortBy = "task" -> StrLess(ToLower(a.Task), ToLower(b.Task))
      [] sortBy = "created_at" -> a.CreatedAt < b.CreatedAt
      [] sortBy = "priority" -> NameRank(a.Priority) < NameRank(b.Priority)

(***************************************************************************)
(* C33: for the sort keys identifier, description, creation time and      *)
(* priority, a descending List prints the retained todos in               *)
(* non-increasing key order and an ascending List in non-decreasing key   *)
(* order, also when several todos share a key.                            *)
(***************************************************************************)
C33_KeyOrder ==
    ( /\ Ran("list")
      /\ out.options.SortBy \in {"id", "task", "created_at", "priority"}
      /\ out.options.SortOrder \in {"asc", "desc"} ) =>
        \A i, j \in 1..Len(out.listed) :
            i < j =>
                IF out.options.SortOrder = "desc"
                THEN ~KeyBefore(out.listed[i], out.listed[j], out.options.SortBy)
                ELSE ~KeyBefore(out.listed[j], out.listed[i], out.options.SortBy)

\* A descending List by description of three todos, two of them with the
\* same description and the third with a later one that the list holds
\* last, has printed the third first.
C33_Witness ==
    /\ Ran("list")
    /\ out.options.SortBy = "task"
    /\ out.options.SortOrder = "desc"
    /\ Len(out.listed) = 3
    /\ out.pre.Todos[1].Task = out.pre.Todos[2].Task
    /\ StrLess(ToLower(out.pre.Todos[1].Task), ToLower(out.pre.Todos[3].Task))
    /\ out.listed[1] = out.pre.Todos[3]

\* The undo record is of one of the given types.
Pending(types) == lastActionState.Type \in types

(***************************************************************************)
(* C34: whenever the undo record is an add, a complete or an uncomplete   *)
(* of id, a record with identifier id is in the list, so that an undo of  *)
(* such a record never fails with not-found; and whenever it is a delete  *)
(* of id, no record with identifier id is in the list.                    *)
(***************************************************************************)
C34_Original ==
    /\ Pending({"ActionAdd", "ActionComplete", "ActionUncomplete"})
          => HasID(todoList.Todos, lastActionState.ID)
    /\ Pending({"ActionDelete"}) => ~HasID(todoList.Todos, lastActionState.ID)
    /\ ( /\ Ran("undo")
         /\ out.preAction.Type \in {"ActionAdd", "ActionComplete", "ActionUncomplete"} )
          => ~out.err

\* C34 amended: the record of an add or an uncomplete of id has a record
\* id in the list, which is not completed, and its undo does not fail; the
\* record of a delete of id has none.  The record of a complete of id has
\* record id in the list, completed, until a clear-completed removes it:
\* the undo record stays as it is, and the undo that follows fails with
\* not-found, changes nothing in the list and empties the undo record.
C34_PendingRecordPresent ==
    /\ [] ( /\ Pending({"ActionAdd", "ActionUncomplete"}) =>
                /\ HasID(todoList.Todos, lastActionState.ID)
                /\ ~TodoOf(todoList, lastActionState.ID).Completed
            /\ Pending({"ActionDelete"}) => ~HasID(todoList.Todos, lastActionState.ID)
            /\ ( Pending({"ActionComplete"})
                 /\ HasID(todoList.Todos, lastActionState.ID) )
                    => TodoOf(todoList, lastActionState.ID).Completed
            /\ ( Ran("undo") /\ out.preAction.Type \in {"ActionAdd", "ActionUncomplete"} )
                    => ~out.err
            /\ ( Ran("undo") /\ out.preAction.Type = "ActionComplete" ) =>
                    /\ out.err <=> ~HasID(out.pre.Todos, out.preAction.ID)
                    /\ out.err => todoList = out.pre /\ lastActionState = NoAction )
    /\ [][ ( /\ Pending({"ActionComplete"})
             /\ HasID(todoList.Todos, lastActionState.ID)
             /\ lastActionState' = lastActionState
             /\ ~HasID(todoList'.Todos, lastActionState.ID) )
              => Ran("clear-completed")' ]_vars

\* An undo found the complete of a record that a clear-completed had
\* removed, and failed.
C34_Witness ==
    /\ Ran("undo")
    /\ out.err
    /\ out.preAction.Type = "ActionComplete"
    /\ ~HasID(out.pre.Todos, out.preAction.ID)
    /\ Len(out.pre.Todos) >= 1

\* The last command did not succeed: a complete, uncomplete or delete of
\* an identifier no record has or with a missing or non-numeric
\* identifier, or an add rejected for its missing task or its due date.
Unsuccessful ==
    \/ /\ out.cmd \in {"complete", "uncomplete", "delete"}
       /\ \/ out.called /\ out.err
          \/ out.idTok = <<>>
          \/ Atoi(out.idTok).err
    \/ out.cmd = "add" /\ ~out.called

(***************************************************************************)
(* C35: a command that does not succeed leaves the undo record as it was  *)
(* (and the list, C9): Complete, Uncomplete or Delete of an unknown       *)
(* identifier, an add rejected for a missing task or an invalid due date, *)
(* and a command with a missing or non-numeric identifier.  The undo that *)
(* follows does what it would have done before the command.               *)
(***************************************************************************)
C35_FailureKeepsTracker ==
    /\ [] ( Unsuccessful => lastActionState = out.preAction /\ todoList = out.pre )
    /\ [][ (Unsuccessful /\ Ran("undo")') =>
              /\ todoList' = Undo(out.pre, out.preAction).tl
              /\ out'.err = Undo(out.pre, out.preAction).err
              /\ out'.msgs = Undo(out.pre, out.preAction).msgs ]_vars

\* A complete of an identifier no record has came after a delete, and the
\* undo record still holds the deleted todo.
C35_Witness ==
    /\ Ran("complete")
    /\ out.err
    /\ out.preAction.Type = "ActionDelete"
    /\ lastActionState.Type = "ActionDelete"
    /\ lastActionState.DeletedTodo # <<>>

(***************************************************************************)
(* C36: every snapshot the background save writes, at any interleaving    *)
(* with a foreground Add, Delete or ClearCompleted, has pairwise          *)
(* different identifiers, all below the saved counter, so that a process  *)
(* that loads it and calls Add gives the new todo an identifier no        *)
(* loaded todo has.                                                       *)
(***************************************************************************)
C36_SnapshotInvariant ==
    saver.pc = "write" =>
      LET l == LoadFromFile(FileWith(MarshalIndent(Snapshot)))
      IN  /\ \A i, j \in 1..Len(Snapshot.Todos) :
                i # j => Snapshot.Todos[i].ID # Snapshot.Todos[j].ID
          /\ \A i \in 1..Len(Snapshot.Todos) :
                Snapshot.Todos[i].ID < Snapshot.NextID
          /\ ~l.err
          /\ Add(l.tl[1], <<"A">>, PriorityMedium, <<>>, <<>>, clock + 1).todo.ID
                \notin IDsOf(l.tl[1].Todos)

(***************************************************************************)
(* C37: when the process ends normally and main's final save succeeded,   *)
(* the data file at the end of the process holds the list as it is in     *)
(* memory, however a background save in progress interleaves with the     *)
(* final save.                                                            *)
(***************************************************************************)
C37_StoreEqualsListAtExit ==
    (proc = Exited(0) /\ fg.op = "saved" /\ fg.k = 0) =>
        /\ disk = FileWith(MarshalIndent(todoList))
        /\ LoadFromFile(disk).tl = <<todoList>>

\* main's LoadFromFile has returned an error.
LoadFailed == Ran("load") /\ out.err

(***************************************************************************)
(* C38: when LoadFromFile fails at startup (a read error other than a     *)
(* missing file, or a decode error) the process ends with status 1, the   *)
(* auto-save is not started and nothing is saved: the data file is as it  *)
(* was before the launch for as long as the process is the last one run.  *)
(***************************************************************************)
C38_LoadFailureKeepsFile ==
    /\ [] ( LoadFailed => proc = Exited(1) /\ saver = SaverOff )
    /\ [][ (LoadFailed \/ LoadFailed') => disk' = disk ]_vars

\* A run that could not decode the data file has ended, and the file
\* still holds the document.
C38_Witness ==
    /\ LoadFailed
    /\ proc = Exited(1)
    /\ disk.state = "file"
    /\ Len(disk.data) = 1
    /\ Unmarshal(disk.data).err
    /\ saver = SaverOff

\* What List prints for the list the call started from with the status
\* filter, or the priority filter, of the call replaced.
ListedWithStatus(st) == List(out.pre, [out.options EXCEPT !.FilterStatus = st])
ListedWithPriority(p) == List(out.pre, [out.options EXCEPT !.FilterPriority = p])

(***************************************************************************)
(* C39: a priority filter that is not high, medium or low in any letter   *)
(* case ("urgent") is no priority filter for List: the call prints what   *)
(* it prints with the priority filter empty, todos of every priority that *)
(* pass the other filters.  A status filter other than "completed" and    *)
(* "incomplete" keeps the todos of both statuses: the call prints the     *)
(* todos either of the two status filters prints.                         *)
(***************************************************************************)
C39_UnknownFilterIsNoFilter ==
    /\ (Ran("list") /\ ~KnownPriorityFilter(out.options)) =>
          /\ out.listed = ListedWithPriority(<<>>)
          /\ \A i \in 1..Len(out.pre.Todos) :
                ( /\ out.options.FilterStatus = "completed" => out.pre.Todos[i].Completed
                  /\ out.options.FilterStatus = "incomplete" => ~out.pre.Todos[i].Completed
                  /\ out.options.FilterTags = <<>> )
                    => out.pre.Todos[i] \in ElemsOf(out.listed)
    /\ (Ran("list") /\ out.options.FilterStatus \notin {"completed", "incomplete"}) =>
          ElemsOf(out.listed) = ElemsOf(ListedWithStatus("completed"))
                                  \cup ElemsOf(ListedWithStatus("incomplete"))

\* A List with the priority filter "urgent" and the status filter "done"
\* has printed three todos: one completed, one not, of two priorities.
C39_Witness ==
    /\ Ran("list")
    /\ out.options.FilterPriority = TagUrgent
    /\ out.options.FilterStatus = "done"
    /\ Len(out.listed) = 3
    /\ \E i, j \in 1..3 :
          /\ out.listed[i].Completed /\ ~out.listed[j].Completed
          /\ out.listed[i].Priority # out.listed[j].Priority

\* The todos of the list the call started from that SearchTasks has to
\* find, in the order of the list: those with the query, in any letter
\* case, in the description or in a tag.
RECURSIVE MatchesInOrder(_, _)
MatchesInOrder(todos, q) ==
    IF todos = <<>> THEN <<>>
    ELSE LET t == Head(todos)
             hit == \/ HasFold(t.Task, q)
                    \/ \E k \in 1..Len(t.Tags) : HasFold(t.Tags[k], q)
         IN  (IF hit THEN <<t>> ELSE <<>>) \o MatchesInOrder(Tail(todos), q)

(***************************************************************************)
(* C40: the list SearchTasks returns holds the matching todos in the      *)
(* order they have in the list searched, each of them once, also when the *)
(* query is found in its description and in several of its tags; its      *)
(* counter is 1 whatever identifiers it holds.                            *)
(***************************************************************************)
C40_SearchOrderOnceCounter ==
    Ran("search") =>
        /\ out.listed = MatchesInOrder(out.pre.Todos, out.task)
        /\ \A i, j \in 1..Len(out.listed) :
              i # j => out.listed[i].ID # out.listed[j].ID
        /\ SearchTasks(out.pre, out.task).Todos = out.listed
        /\ SearchTasks(out.pre, out.task).NextID = 1

\* A search has found three todos, the first of them by its description
\* and by two of its tags, and the identifiers found are 3, 2, 1.
C40_Witness ==
    /\ Ran("search")
    /\ Len(out.listed) = 3
    /\ out.listed[1].ID = 3
    /\ out.listed[3].ID = 1
    /\ out.task # <<>>
    /\ HasFold(out.listed[1].Task, out.task)
    /\ Cardinality({k \in 1..Len(out.listed[1].Tags) :
                      HasFold(out.listed[1].Tags[k], out.task)}) >= 2

====
